---- MODULE Spec2Model ----
(***************************************************************************)
(* Face detection / blink detection pipeline of react-native-webrtc.       *)
(*                                                                         *)
(* The module models                                                       *)
(*   - the per-eye tracker of the iOS processor (processEyeLandmarks),     *)
(*     as an operator over exact rationals, time in milliseconds;          *)
(*   - the iOS processor (capturer:didCaptureVideoFrame:, processFrame,    *)
(*     processFaceObservations, reset) with the control layer              *)
(*     (enableFaceDetection / disableFaceDetection);                       *)
(*   - the Android processor (process, runFaceDetection,                  *)
(*     processFaceResults, processEye, setEnabled, reset);                 *)
(*   - the JavaScript side: configureWebRTC, the track's                   *)
(*     enableFaceDetection / disableFaceDetection and the                  *)
(*     useBlinkDetection hook.                                             *)
(***************************************************************************)
EXTENDS Integers, Sequences, FiniteSets, TLC

VARIABLES
    \* ---- processor: one FaceDetectionProcessor object ----
    platform,        \* "ios" | "android" : which implementation the object is
    isEnabled,       \* BOOL isEnabled
    frameSkipCount,  \* NSInteger / int frameSkipCount
    blinkThreshold,  \* CGFloat / float blinkThreshold (a rational)
    frameCounter,    \* NSInteger / int frameCounter
    isProcessing,    \* BOOL / AtomicBoolean isProcessing
    leftEyeStates,   \* registry: key -> EyeState object
    rightEyeStates,  \* registry: key -> EyeState object
    pipelineInitialized, \* Android: volatile boolean pipelineInitialized
    cap,             \* the capture thread: [pc, ...]
    ctl,             \* the control thread (module method queue): [pc, ...]
    queue,           \* analyses posted to the processing queue, not yet started:
                     \* "frame" holds the RTCVideoFrame it was given (iOS),
                     \* "image" the InputImage copied from the frame (Android)
    wrk,             \* the analysis being executed by the worker
    events,          \* events handed to the event emitter since the latest
                     \* analysis began, in order
    now,             \* wall clock, milliseconds
    crashed,         \* the process was terminated by undefined behaviour
    ghost,           \* history variables used only by the properties
    \* ---- single-eye tracker (SpecEye, SpecScenario) ----
    eye,             \* one EyeState
    eNow,            \* clock of the eye specifications, milliseconds
    eThr,            \* blinkThreshold of the eye specifications
    eLog,            \* blinkDetected events emitted for the eye
    eCount,          \* observations processed so far
    eOut,            \* the dictionary the last processEyeLandmarks call returned
    script,          \* SpecScenario, SpecCalib: the (ear, time) samples to inject
    calib,           \* SpecCalib: avgEAR as the CGFloat the build computes,
                     \* the build's use of fused multiply-add, and the exact
                     \* sum of the samples
    lid,             \* SpecContour: the eye contour handed to calculateEAR,
                     \* the factor its y coordinates are scaled by, and the
                     \* values calculateEAR returned
    \* ---- Android frame pipeline (SpecFrames) ----
    vep,             \* one VideoEffectProcessor, the frame it is handling and
                     \* the reference count of every frame of that call
    \* ---- example signaling server (SpecServer) ----
    srv,             \* waitingUsers and pairedUsers of the server, and the
                     \* sockets that are connected
    \* ---- JavaScript side (SpecControl, SpecHook) ----
    js               \* the track, the module configuration, the state of
                     \* the useBlinkDetection hook and the call in flight

procVars == <<platform, isEnabled, frameSkipCount, blinkThreshold, frameCounter,
              isProcessing, leftEyeStates, rightEyeStates, pipelineInitialized, cap, ctl, queue,
              wrk, events, now, crashed, ghost>>
eyeVars == <<eye, eNow, eThr, eLog, eCount, eOut, script, calib, lid, vep,
             srv>>
vars == <<procVars, eyeVars, js>>

----------------------------------------------------------------------------
(* Exact rationals <<numerator, denominator>>, denominator > 0, lowest     *)
(* terms: the CGFloat values of the tracker, without rounding.             *)

RECURSIVE GCD(_, _)
GCD(a, b) == IF b = 0 THEN a ELSE GCD(b, a % b)

Abs(n) == IF n < 0 THEN -n ELSE n

R(n, d) ==
    LET g == GCD(Abs(n), d)
    IN  IF n = 0 THEN <<0, 1>> ELSE <<n \div g, d \div g>>

\* the one element of a singleton set
The(S) == CHOOSE v \in S : TRUE

\* sums and comparisons over the least common denominator, products after
\* cancelling across, so that intermediate integers stay small; each
\* argument is bound once (x, y), however often the body uses it
RAdd(a, b) ==
    The({LET g == GCD(x[2], y[2])
         IN  R(x[1] * (y[2] \div g) + y[1] * (x[2] \div g), (x[2] \div g) * y[2]) :
         x \in {a}, y \in {b}})
RNeg(a) == The({<<-x[1], x[2]>> : x \in {a}})
RSub(a, b) == RAdd(a, RNeg(b))
RMul(a, b) ==
    The({LET g1 == GCD(Abs(x[1]), y[2])
             g2 == GCD(Abs(y[1]), x[2])
         IN  IF x[1] = 0 \/ y[1] = 0 THEN <<0, 1>>
             ELSE <<(x[1] \div g1) * (y[1] \div g2),
                    (x[2] \div g2) * (y[2] \div g1)>> :
         x \in {a}, y \in {b}})
RMulInt(a, k) == RMul(a, <<k, 1>>)
RDivInt(a, k) == RMul(a, <<1, k>>)
RDiv(a, b) ==
    The({IF y[1] > 0 THEN RMul(a, <<y[2], y[1]>>)
         ELSE RMul(a, <<-y[2], -y[1]>>) : y \in {b}})
RGt(a, b) ==
    \E x \in {a}, y \in {b} :
        LET g == GCD(x[2], y[2])
        IN  x[1] * (y[2] \div g) > y[1] * (x[2] \div g)
RLt(a, b) == RGt(b, a)
RMin(a, b) == The({IF RLt(x, y) THEN x ELSE y : x \in {a}, y \in {b}})
RMax(a, b) == The({IF RGt(x, y) THEN x ELSE y : x \in {a}, y \in {b}})
Zero == <<0, 1>>
One == <<1, 1>>

----------------------------------------------------------------------------
(* IEEE 754 binary64, the CGFloat of the 64-bit builds: positive values    *)
(* and zero, round to nearest even, no subnormals. A value is              *)
(* [m |-> mantissa, e |-> exponent] meaning m * 2^e, with m a natural      *)
(* number of exactly 53 bits written as limbs of 15 bits, least            *)
(* significant first; zero is [m |-> <<>>, e |-> 0].                       *)

LimbBits == 15
Base == 32768
MantissaBits == 53
\* bits by which a dividend is extended before an integer division
DivExtra == 60

RECURSIVE Pow2(_)
Pow2(k) == IF k = 0 THEN 1 ELSE 2 * Pow2(k - 1)

RECURSIVE Bits(_)
Bits(n) == IF n = 0 THEN 0 ELSE 1 + Bits(n \div 2)

RECURSIVE BNorm(_)
BNorm(s) ==
    IF s = <<>> THEN s
    ELSE IF s[Len(s)] = 0 THEN BNorm(SubSeq(s, 1, Len(s) - 1)) ELSE s

\* s * k + c for 0 <= k, c < Base
RECURSIVE BMulSmall(_, _, _)
BMulSmall(s, k, c) ==
    IF s = <<>> THEN (IF c = 0 THEN <<>> ELSE <<c>>)
    ELSE LET v == s[1] * k + c
         IN  <<v % Base>> \o BMulSmall(Tail(s), k, v \div Base)

\* a + b + c for c in 0..1
RECURSIVE BAdd(_, _, _)
BAdd(a, b, c) ==
    IF a = <<>> /\ b = <<>> THEN (IF c = 0 THEN <<>> ELSE <<c>>)
    ELSE LET x == IF a = <<>> THEN 0 ELSE a[1]
             y == IF b = <<>> THEN 0 ELSE b[1]
             v == x + y + c
         IN  <<v % Base>> \o BAdd(IF a = <<>> THEN a ELSE Tail(a),
                                  IF b = <<>> THEN b ELSE Tail(b),
                                  v \div Base)

RECURSIVE BMul(_, _)
BMul(a, b) ==
    IF a = <<>> \/ b = <<>> THEN <<>>
    ELSE BNorm(BAdd(BMulSmall(a, b[1], 0), <<0>> \o BMul(a, Tail(b)), 0))

\* quotient (not normalised) and remainder of s by k, 0 < k < Base
RECURSIVE BDivSmall(_, _)
BDivSmall(s, k) ==
    IF s = <<>> THEN [q |-> <<>>, r |-> 0]
    ELSE LET hi == BDivSmall(Tail(s), k)
             v == hi.r * Base + s[1]
         IN  [q |-> <<v \div k>> \o hi.q, r |-> v % k]

BitLen(s) == IF s = <<>> THEN 0 ELSE LimbBits * (Len(s) - 1) + Bits(s[Len(s)])

RECURSIVE BShl(_, _)
BShl(s, n) ==
    IF s = <<>> \/ n = 0 THEN s
    ELSE IF n >= LimbBits THEN <<0>> \o BShl(s, n - LimbBits)
    ELSE BMulSmall(s, Pow2(n), 0)

\* s shifted right by n bits, and whether a 1 bit was shifted out
RECURSIVE BShr(_, _)
BShr(s, n) ==
    IF s = <<>> \/ n = 0 THEN [q |-> s, sticky |-> FALSE]
    ELSE IF n >= LimbBits
         THEN LET hi == BShr(Tail(s), n - LimbBits)
              IN  [q |-> hi.q, sticky |-> hi.sticky \/ s[1] # 0]
    ELSE LET d == BDivSmall(s, Pow2(n))
         IN  [q |-> BNorm(d.q), sticky |-> d.r # 0]

\* a < b for normalised a, b
RECURSIVE BLess(_, _)
BLess(a, b) ==
    IF Len(a) # Len(b) THEN Len(a) < Len(b)
    ELSE IF a = <<>> THEN FALSE
    ELSE IF a[Len(a)] # b[Len(b)] THEN a[Len(a)] < b[Len(b)]
    ELSE BLess(SubSeq(a, 1, Len(a) - 1), SubSeq(b, 1, Len(b) - 1))

FZero == [m |-> <<>>, e |-> 0]

\* the binary64 nearest to m * 2^e (plus a nonzero fraction below the last
\* bit of m when sticky), ties to even
FRound(m, e, sticky) ==
    LET len == BitLen(m)
    IN  IF len = 0 THEN FZero
        ELSE IF len <= MantissaBits
        THEN [m |-> BShl(m, MantissaBits - len), e |-> e - (MantissaBits - len)]
        ELSE LET s == len - MantissaBits
                 a == BShr(m, s - 1)
                 guard == a.q[1] % 2
                 q == BShr(a.q, 1).q
                 up == guard = 1 /\ (a.sticky \/ sticky \/ q[1] % 2 = 1)
                 q1 == IF up THEN BAdd(q, <<>>, 1) ELSE q
             IN  IF BitLen(q1) > MantissaBits
                 THEN [m |-> BShr(q1, 1).q, e |-> e + s + 1]
                 ELSE [m |-> q1, e |-> e + s]

\* (CGFloat)k for an integer 0 <= k < Base
FFromInt(k) == FRound(IF k = 0 THEN <<>> ELSE <<k>>, 0, FALSE)

\* x * y
FMul(x, y) == FRound(BMul(x.m, y.m), x.e + y.e, FALSE)

\* the exact sum of x and y as mantissa and exponent
FSumExact(x, y) ==
    IF x.m = <<>> THEN y
    ELSE IF y.m = <<>> THEN x
    ELSE LET e == IF x.e < y.e THEN x.e ELSE y.e
         IN  [m |-> BAdd(BShl(x.m, x.e - e), BShl(y.m, y.e - e), 0), e |-> e]

\* x + y
FAdd(x, y) == LET s == FSumExact(x, y) IN FRound(s.m, s.e, FALSE)

\* x * y + z rounded once (fmadd)
FMulAdd(x, y, z) ==
    LET s == FSumExact([m |-> BMul(x.m, y.m), e |-> x.e + y.e], z)
    IN  FRound(s.m, s.e, FALSE)

\* x / (CGFloat)k for an integer 0 < k < Base
FDivInt(x, k) ==
    LET d == BDivSmall(BShl(x.m, DivExtra), k)
    IN  FRound(BNorm(d.q), x.e - DivExtra, d.r # 0)

\* the binary64 a decimal literal or a measured value n / d denotes
Dbl(n, d) == FDivInt(FFromInt(n), d)

\* x > y
FGt(x, y) ==
    IF x.m = <<>> THEN FALSE
    ELSE IF y.m = <<>> THEN TRUE
    ELSE IF x.e # y.e THEN x.e > y.e
    ELSE BLess(y.m, x.m)

----------------------------------------------------------------------------
(* The iOS per-eye tracker.                                                *)

\* eyeRegion nil or pointCount == 0 (no rational has denominator 0)
NoLandmarks == <<0, 0>>

CalibrationSamples == 30
MissingMinSamples == 10
BlinkMinMs == 50
BlinkMaxMs == 400

\* the eye dictionary of a face before any observation
NoOutput == [isOpen |-> TRUE, openProbability |-> One, blinkCount |-> 0]

\* EyeState init
NewEyeState ==
    [isOpen |-> TRUE, wasOpen |-> TRUE, blinkCount |-> 0,
     currentEAR |-> R(3, 10), avgEAR |-> R(3, 10), sampleCount |-> 0,
     lastOpenTime |-> 0, lastClosedTime |-> 0]

\* mutant: the default value of avgEAR is weighted as one more sample
UpdateAvgEARBiased(avg, n, ear) ==
    IF n <= CalibrationSamples
    THEN RDivInt(RAdd(RMulInt(avg, n), ear), n + 1)
    ELSE IF RGt(ear, RMul(avg, R(1, 2)))
         THEN RAdd(RMul(avg, R(98, 100)), RMul(ear, R(2, 100)))
         ELSE avg

\* running average update, calibration phase then exponential moving average
UpdateAvgEAR(avg, n, ear) ==
    IF n <= CalibrationSamples
    THEN RDivInt(RAdd(RMulInt(avg, n - 1), ear), n)
    ELSE IF RGt(ear, RMul(avg, R(1, 2)))
         THEN RAdd(RMul(avg, R(98, 100)), RMul(ear, R(2, 100)))
         ELSE avg

\* the same update in the CGFloat arithmetic of the build; mode says how the
\* compiler contracts a * b + c: "sep" rounds the product and the sum,
\* "fmaA" fuses the product with avgEAR, "fmaE" the product with ear
UpdateAvgEARDouble(avg, n, ear, mode) ==
    IF n <= CalibrationSamples
    THEN FDivInt(IF mode = "sep" THEN FAdd(FMul(avg, FFromInt(n - 1)), ear)
                 ELSE FMulAdd(avg, FFromInt(n - 1), ear), n)
    ELSE IF FGt(ear, FMul(avg, Dbl(1, 2)))
         THEN IF mode = "sep"
              THEN FAdd(FMul(avg, Dbl(98, 100)), FMul(ear, Dbl(2, 100)))
              ELSE IF mode = "fmaA"
              THEN FMulAdd(avg, Dbl(98, 100), FMul(ear, Dbl(2, 100)))
              ELSE FMulAdd(ear, Dbl(2, 100), FMul(avg, Dbl(98, 100)))
         ELSE avg

\* fabs
RAbs(a) == IF a[1] < 0 THEN RNeg(a) ELSE a

\* the smallest and the largest of a non-empty set of values
RLeast(S) == CHOOSE v \in S : \A w \in S : ~RLt(w, v)
RMost(S) == CHOOSE v \in S : \A w \in S : ~RGt(w, v)

\* an eye contour is a sequence of points <<x, y>>
MinContourPoints == 6
DefaultEAR == R(3, 10)
MinHorizontalDistance == R(1, 10000)
SamplePositions == <<R(1, 4), R(1, 2), R(3, 4)>>
ToleranceRatio == R(15, 100)

XsOf(points) == {points[i][1] : i \in 1..Len(points)}
YsOf(points) == {points[i][2] : i \in 1..Len(points)}
HorizontalDistance(points) == RSub(RMost(XsOf(points)), RLeast(XsOf(points)))
VerticalExtent(points) == RSub(RMost(YsOf(points)), RLeast(YsOf(points)))

\* the y values of the points within the tolerance of sample position s
NearYs(points, s) ==
    LET minX == RLeast(XsOf(points))
        horizontalDistance == HorizontalDistance(points)
        sampleX == RAdd(minX, RMul(horizontalDistance, SamplePositions[s]))
        tolerance == RMul(horizontalDistance, ToleranceRatio)
    IN  {points[i][2] : i \in {j \in 1..Len(points) :
            RLt(RAbs(RSub(points[j][1], sampleX)), tolerance)}}

\* the sample positions that contribute: some point is near and upperY > lowerY
SampledAt(points) ==
    {s \in 1..Len(SamplePositions) :
        LET ys == NearYs(points, s)
        IN  ys # {} /\ RGt(RMost(ys), RLeast(ys))}

RECURSIVE TotalVerticalDistance(_, _)
TotalVerticalDistance(points, S) ==
    IF S = {} THEN Zero
    ELSE LET s == CHOOSE t \in S : TRUE
             ys == NearYs(points, s)
         IN  RAdd(RSub(RMost(ys), RLeast(ys)),
                  TotalVerticalDistance(points, S \ {s}))

\* mutant: the default value instead of the bounding box when no sample
\* position contributes
calculateEARDefaultFallback(points) ==
    IF Len(points) < MinContourPoints THEN DefaultEAR
    ELSE IF RLt(HorizontalDistance(points), MinHorizontalDistance) THEN DefaultEAR
    ELSE LET S == SampledAt(points)
         IN  IF S = {} THEN DefaultEAR
             ELSE RDiv(RDivInt(TotalVerticalDistance(points, S), Cardinality(S)),
                       HorizontalDistance(points))

\* calculateEAR:count:
calculateEAR(points) ==
    IF Len(points) < MinContourPoints THEN DefaultEAR
    ELSE IF RLt(HorizontalDistance(points), MinHorizontalDistance) THEN DefaultEAR
    ELSE LET S == SampledAt(points)
         IN  IF S = {}
             THEN RDiv(VerticalExtent(points), HorizontalDistance(points))
             ELSE RDiv(RDivInt(TotalVerticalDistance(points, S), Cardinality(S)),
                       HorizontalDistance(points))

\* mutants of the validity window
ValidBlinkInclusive(closedDuration) ==
    closedDuration >= BlinkMinMs /\ closedDuration <= BlinkMaxMs
ValidBlinkTypo(closedDuration) ==
    closedDuration > BlinkMinMs /\ closedDuration < BlinkMaxMs \div 10

\* closedDuration > 0.05 && closedDuration < 0.4, in milliseconds
ValidBlink(closedDuration) ==
    closedDuration > BlinkMinMs /\ closedDuration < BlinkMaxMs

\* mutant: the quotient is reported without the clamp
OpenProbabilityUnclamped(ear, avg, thr, currentlyOpen) ==
    IF RGt(avg, R(1, 1000))
    THEN LET closedEAR == RMul(avg, thr)
             range == RSub(avg, closedEAR)
         IN  IF RGt(range, R(1, 1000))
             THEN RDiv(RSub(ear, closedEAR),
                       RSub(RMul(avg, R(12, 10)), closedEAR))
             ELSE IF currentlyOpen THEN One ELSE Zero
    ELSE Zero

\* openProbability of an eye with landmarks
OpenProbability(ear, avg, thr, currentlyOpen) ==
    IF RGt(avg, R(1, 1000))
    THEN LET closedEAR == RMul(avg, thr)
             range == RSub(avg, closedEAR)
         IN  IF RGt(range, R(1, 1000))
             THEN RMin(One, RMax(Zero,
                      RDiv(RSub(ear, closedEAR),
                           RSub(RMul(avg, R(12, 10)), closedEAR))))
             ELSE IF currentlyOpen THEN One ELSE Zero
    ELSE Zero

\* mutant: the closing is recorded without its time
MissingLandmarksNoStamp(es, t) ==
    LET hadData == es.sampleCount > MissingMinSamples
        s1 == [es EXCEPT !.wasOpen = es.isOpen,
                         !.isOpen = IF hadData THEN FALSE ELSE @]
    IN  [state |-> s1,
         blinks |-> <<>>,
         data |-> [isOpen |-> s1.isOpen,
                   openProbability |-> IF s1.isOpen THEN One ELSE Zero,
                   blinkCount |-> s1.blinkCount]]

\* mutant: a missing eye region is counted as a sample
MissingLandmarksCounted(es, t) ==
    LET s1 == [es EXCEPT !.wasOpen = es.isOpen, !.sampleCount = @ + 1]
    IN  [state |-> s1,
         blinks |-> <<>>,
         data |-> [isOpen |-> s1.isOpen,
                   openProbability |-> IF s1.isOpen THEN One ELSE Zero,
                   blinkCount |-> s1.blinkCount]]

\* the branch of processEyeLandmarks taken when the eye region is missing
MissingLandmarks(es, t) ==
    LET was == es.isOpen
        hadData == es.sampleCount > MissingMinSamples
        s1 == [es EXCEPT !.wasOpen = was,
                         !.isOpen = IF hadData THEN FALSE ELSE @,
                         !.lastClosedTime = IF hadData /\ was THEN t ELSE @]
    IN  [state |-> s1,
         blinks |-> <<>>,
         data |-> [isOpen |-> s1.isOpen,
                   openProbability |-> IF s1.isOpen THEN One ELSE Zero,
                   blinkCount |-> s1.blinkCount]]

\* mutant: lastClosedTime is written at every closed observation
StampClosedAlways(was, currentlyOpen, old, t) ==
    IF ~currentlyOpen THEN t ELSE old

\* else if (!currentlyOpen && eyeState.wasOpen) lastClosedTime = now
StampClosed(was, currentlyOpen, old, t) ==
    IF ~currentlyOpen /\ was THEN t ELSE old

\* the branch of processEyeLandmarks taken when the eye region has points;
\* ear is the value calculateEAR returned for them
WithLandmarks(es, ear, t, thr, eyeSide, trackingId) ==
    LET n == es.sampleCount + 1
        avg == UpdateAvgEAR(es.avgEAR, n, ear)
        adaptiveThreshold == RMul(avg, thr)
        was == es.isOpen
        currentlyOpen == RGt(ear, adaptiveThreshold)
        opened == currentlyOpen /\ ~was
        closed == ~currentlyOpen /\ was
        lastClosed == StampClosed(was, currentlyOpen, es.lastClosedTime, t)
        closedDuration == t - lastClosed
        blink == ~was /\ currentlyOpen /\ ValidBlink(closedDuration)
        count == IF blink THEN es.blinkCount + 1 ELSE es.blinkCount
        s1 == [isOpen |-> currentlyOpen, wasOpen |-> was, blinkCount |-> count,
               currentEAR |-> ear, avgEAR |-> avg, sampleCount |-> n,
               lastOpenTime |-> IF opened THEN t ELSE es.lastOpenTime,
               lastClosedTime |-> lastClosed]
    IN  [state |-> s1,
         blinks |-> IF blink
                    THEN <<[type |-> "blinkDetected", timestamp |-> t,
                            eye |-> eyeSide, trackingId |-> trackingId,
                            blinkCount |-> count]>>
                    ELSE <<>>,
         data |-> [isOpen |-> currentlyOpen,
                   openProbability |-> OpenProbability(ear, avg, thr, currentlyOpen),
                   blinkCount |-> count]]

\* processEyeLandmarks: obs is NoLandmarks or the EAR of the eye's points
ProcessEyeLandmarks(es, obs, t, thr, eyeSide, trackingId) ==
    IF obs = NoLandmarks
    THEN MissingLandmarks(es, t)
    ELSE WithLandmarks(es, obs, t, thr, eyeSide, trackingId)

----------------------------------------------------------------------------
(* The processor object and its threads.                                   *)
(*   capture thread : delivers frames (capturer:didCaptureVideoFrame: /    *)
(*                    process)                                             *)
(*   control thread : enableFaceDetection / disableFaceDetection / reset   *)
(*   worker         : the serial processing queue (iOS), the detection     *)
(*                    task and its listeners (Android)                     *)
(* An EyeState object the worker holds while reset() empties the registry  *)
(* lives on outside the registry: the worker's reference is then marked    *)
(* detached and carries the object.                                        *)

MaxCounter == 4
MaxQueue == 2
MaxNow == 100

Ticks == {100}

\* the config dictionaries the control layer passes to enableFaceDetection:
\* a key is present when its set is not empty
NoConfig == [skip |-> {}, thr |-> {}]
Configs == {NoConfig, [skip |-> {1}, thr |-> {R(1, 2)}]}
\* the same with frameSkipCount values an application may also pass
AnyConfigs == Configs \cup {[skip |-> {0}, thr |-> {}], [skip |-> {-1}, thr |-> {}]}

\* what Vision reports for one face: landmarks or none, and per eye the EAR
\* of its region or NoLandmarks
IOSFaces ==
    {[landmarks |-> FALSE, left |-> NoLandmarks, right |-> NoLandmarks],
     [landmarks |-> TRUE, left |-> R(3, 10), right |-> R(3, 10)],
     [landmarks |-> TRUE, left |-> R(1, 10), right |-> NoLandmarks]}
IOSResults == {<<>>} \cup {<<f>> : f \in IOSFaces}
\* the results of a scene with at most one face, its eyes open
PlainResults ==
    {<<>>, <<[landmarks |-> TRUE, left |-> R(3, 10), right |-> R(3, 10)]>>}

Idle == [pc |-> "idle"]
Attached == [det |-> FALSE, obj |-> NewEyeState]

\* history variables:
\*   clean        the counter was 0 at the last reset (or is fresh) and since
\*                then frameSkipCount did not change and no frame was dropped
\*                as busy; k, adm, lastAdmit are kept only while clean
\*   k            frames that reached the counter since then
\*   adm          frames admitted since then
\*   lastAdmit    the k-th frame was admitted
\*   disabledDone disableFaceDetection has completed and enable was not
\*                called since
\*   afterReset   reset has run and no faceDetected was emitted since
\*   failed       the admitted frame handled last failed
GhostInit ==
    [k |-> 0, adm |-> 0, clean |-> TRUE, lastAdmit |-> FALSE,
     disabledDone |-> FALSE, afterReset |-> FALSE, failed |-> FALSE]

Unclean(g) == [g EXCEPT !.k = 0, !.adm = 0, !.lastAdmit = FALSE, !.clean = FALSE]

EyeIdle ==
    /\ eye = NewEyeState /\ eNow = 0 /\ eThr = Zero /\ eLog = <<>>
    /\ eCount = 0 /\ eOut = NoOutput /\ script = <<>> /\ calib = <<>> /\ lid = <<>>
    /\ vep = <<>> /\ srv = <<>>
    /\ js = <<>>

\* initWithEventEmitter:
IOS_Init ==
    /\ platform = "ios"
    /\ isEnabled = FALSE /\ frameSkipCount = 2 /\ blinkThreshold = R(3, 5)
    /\ leftEyeStates = <<>> /\ rightEyeStates = <<>>
    /\ frameCounter = 0 /\ isProcessing = FALSE
    /\ pipelineInitialized = FALSE
    /\ cap = Idle /\ ctl = Idle /\ queue = <<>> /\ wrk = Idle
    /\ events = <<>> /\ now = 0 /\ crashed = FALSE /\ ghost = GhostInit

\* a % b of C for a >= 0 and b # 0 (the sign of the divisor is ignored)
CMod(a, b) == a % Abs(b)

\* mutant: the counter is tested before it is incremented
IOS_SkipFrameStale(counter, n) == CMod(counter - 1, n) # 0

\* _frameCounter % _frameSkipCount != 0, counter already incremented
IOS_SkipFrame(counter, n) == CMod(counter, n) # 0

\* the decision of the synchronized block for the incremented counter:
\* "skip" | "busy" | "admit"; with frameSkipCount = 0 the remainder is
\* undefined: the process traps or the test goes either way
IOS_Gate(counter) ==
    LET skips == IF frameSkipCount = 0 THEN {TRUE, FALSE}
                 ELSE {IOS_SkipFrame(counter, frameSkipCount)}
    IN  {IF sk THEN "skip" ELSE IF isProcessing THEN "busy" ELSE "admit" :
            sk \in skips}
        \cup (IF frameSkipCount = 0 THEN {"trap"} ELSE {})

\* ghost bookkeeping of one gate decision d
GateGhost(d) ==
    IF ghost.clean /\ d # "busy"
    THEN [ghost EXCEPT !.k = @ + 1,
                       !.adm = IF d = "admit" THEN @ + 1 ELSE @,
                       !.lastAdmit = (d = "admit")]
    ELSE Unclean(ghost)

\* capturer:didCaptureVideoFrame: up to the isEnabled test
IOS_CaptureCheck ==
    /\ platform = "ios" /\ ~crashed
    /\ cap.pc = "idle" /\ frameCounter < MaxCounter /\ Len(queue) < MaxQueue
    /\ cap' = IF isEnabled THEN [pc |-> "gate"] ELSE Idle
    /\ UNCHANGED <<platform, isEnabled, frameSkipCount, blinkThreshold,
                   frameCounter, isProcessing, leftEyeStates, rightEyeStates,
                   pipelineInitialized, ctl, queue, wrk, events, now, crashed,
                   ghost, eyeVars, js>>

\* the synchronized block and the dispatch_async of the admitted frame
IOS_CaptureGate ==
    /\ platform = "ios" /\ ~crashed
    /\ cap.pc = "gate"
    /\ \E d \in IOS_Gate(frameCounter + 1) :
         /\ frameCounter' = frameCounter + 1
         /\ crashed' = (d = "trap")
         /\ isProcessing' = (isProcessing \/ d = "admit")
         /\ queue' = IF d = "admit" THEN Append(queue, "frame") ELSE queue
         /\ ghost' = GateGhost(d)
    /\ cap' = Idle
    /\ UNCHANGED <<platform, isEnabled, frameSkipCount, blinkThreshold,
                   leftEyeStates, rightEyeStates, pipelineInitialized, ctl, wrk,
                   events, now, eyeVars, js>>

\* the EyeState objects the worker holds at its position, taken out of the
\* registry with them when the registry is emptied
Orphaned(w) ==
    IF w.pc \in {"lookupR", "eyeL", "eyeR"}
    THEN [w EXCEPT
            !.left = IF @.det THEN @
                     ELSE [det |-> TRUE, obj |-> leftEyeStates[w.key]],
            !.right = IF w.pc = "lookupR" \/ @.det THEN @
                      ELSE [det |-> TRUE, obj |-> rightEyeStates[w.key]]]
    ELSE w

\* the value reset gives _isProcessing
IOS_ResetFlag == FALSE

\* mutant: reset leaves the frame counter
IOS_ResetBodyKeepsCounter ==
    /\ leftEyeStates' = <<>>
    /\ rightEyeStates' = <<>>
    /\ frameCounter' = frameCounter
    /\ isProcessing' = IOS_ResetFlag
    /\ wrk' = Orphaned(wrk)

\* - (void)reset
IOS_ResetBody ==
    /\ leftEyeStates' = <<>>
    /\ rightEyeStates' = <<>>
    /\ frameCounter' = 0
    /\ isProcessing' = IOS_ResetFlag
    /\ wrk' = Orphaned(wrk)

ResetGhost(done) ==
    [k |-> 0, adm |-> 0, lastAdmit |-> FALSE,
     clean |-> cap.pc \in {"idle", "gate", "a_incr"},
     afterReset |-> TRUE, failed |-> ghost.failed,
     disabledDone |-> ghost.disabledDone \/ done]

\* The module methods are called by the JavaScript side when it is modelled
\* (js is a record) and by an application that calls at will when it is
\* not (js = <<>>).
\* the JavaScript side has called the module method `call`
\* (j.face is the useFaceDetection hook on the same track, <<>> if there is
\* none)
PostedBy(h, call) == h # <<>> /\ h.pc = "posted" /\ h.call = call
Posted(call) ==
    IF js = <<>> THEN TRUE
    ELSE PostedBy(js, call) \/ PostedBy(js.face, call)
\* resolve(@YES): the promise of the call in flight is resolved
Resolved(j, call) ==
    IF j = <<>> THEN j
    ELSE IF PostedBy(j, call) THEN [j EXCEPT !.pc = "resolved"]
    ELSE [j EXCEPT !.face.pc = "resolved"]

\* enableFaceDetection: isEnabled = YES
IOS_EnableBegin(configs) ==
    /\ platform = "ios" /\ ~crashed
    /\ ctl.pc = "idle" /\ Posted("enable")
    /\ \E cfg \in configs :
         ctl' = IF cfg.skip = {} /\ cfg.thr = {} THEN Idle
                ELSE [pc |-> "en_cfg", cfg |-> cfg]
    /\ isEnabled' = TRUE
    /\ js' = IF ctl' = Idle THEN Resolved(js, "enable") ELSE js
    /\ ghost' = [ghost EXCEPT !.disabledDone = FALSE]
    /\ UNCHANGED <<platform, frameSkipCount, blinkThreshold, frameCounter,
                   isProcessing, leftEyeStates, rightEyeStates,
                   pipelineInitialized, cap, queue, wrk, events, now, crashed,
                   eyeVars>>

\* enableFaceDetection: the configuration is applied. The two property
\* writes are one step: no other thread reads both properties.
IOS_EnableConfig ==
    /\ platform = "ios" /\ ~crashed
    /\ ctl.pc = "en_cfg"
    /\ frameSkipCount' = IF ctl.cfg.skip = {} THEN frameSkipCount
                         ELSE CHOOSE n \in ctl.cfg.skip : TRUE
    /\ blinkThreshold' = IF ctl.cfg.thr = {} THEN blinkThreshold
                         ELSE CHOOSE t \in ctl.cfg.thr : TRUE
    /\ ghost' = IF frameSkipCount' = frameSkipCount \/ ghost.k = 0
                THEN ghost ELSE Unclean(ghost)
    /\ ctl' = Idle
    /\ js' = Resolved(js, "enable")
    /\ UNCHANGED <<platform, isEnabled, frameCounter, isProcessing,
                   leftEyeStates, rightEyeStates, pipelineInitialized, cap,
                   queue, wrk, events, now, crashed, eyeVars>>

\* disableFaceDetection: isEnabled = NO
IOS_DisableBegin ==
    /\ platform = "ios" /\ ~crashed
    /\ ctl.pc = "idle" /\ Posted("disable")
    /\ isEnabled' = FALSE
    /\ ctl' = [pc |-> "dis_reset"]
    /\ UNCHANGED <<platform, frameSkipCount, blinkThreshold, frameCounter,
                   isProcessing, leftEyeStates, rightEyeStates,
                   pipelineInitialized, cap, queue, wrk, events, now, crashed,
                   ghost, eyeVars, js>>

\* disableFaceDetection: [processor reset], resolve
IOS_DisableReset ==
    /\ platform = "ios" /\ ~crashed
    /\ ctl.pc = "dis_reset"
    /\ IOS_ResetBody
    /\ ghost' = ResetGhost(TRUE)
    /\ ctl' = Idle
    /\ js' = Resolved(js, "disable")
    /\ UNCHANGED <<platform, isEnabled, frameSkipCount, blinkThreshold,
                   pipelineInitialized, cap, queue, events, now, crashed,
                   eyeVars>>


\* mutant: the failure path returns without clearing _isProcessing
IOS_FrameFailedStuck ==
    /\ platform = "ios" /\ ~crashed
    /\ wrk.pc = "idle" /\ queue # <<>>
    /\ queue' = Tail(queue)
    /\ ghost' = [ghost EXCEPT !.failed = TRUE]
    /\ UNCHANGED <<platform, isEnabled, frameSkipCount, blinkThreshold,
                   frameCounter, isProcessing, leftEyeStates, rightEyeStates,
                   pipelineInitialized, cap, ctl, wrk, events, now, crashed,
                   eyeVars, js>>

\* mutant: the failure path does not return and reports an empty result
IOS_FrameFailedEmits ==
    /\ platform = "ios" /\ ~crashed
    /\ wrk.pc = "idle" /\ queue # <<>>
    /\ queue' = Tail(queue)
    /\ isProcessing' = FALSE
    /\ events' = Append(events, [type |-> "faceDetected", faces |-> <<>>])
    /\ ghost' = [ghost EXCEPT !.failed = TRUE]
    /\ UNCHANGED <<platform, isEnabled, frameSkipCount, blinkThreshold,
                   frameCounter, leftEyeStates, rightEyeStates,
                   pipelineInitialized, cap, ctl, wrk, now, crashed,
                   eyeVars, js>>

\* processFrame: no pixel buffer, or Vision reports an error
IOS_FrameFailed ==
    /\ platform = "ios" /\ ~crashed
    /\ wrk.pc = "idle" /\ queue # <<>>
    /\ queue' = Tail(queue)
    /\ isProcessing' = FALSE
    /\ ghost' = [ghost EXCEPT !.failed = TRUE]
    /\ UNCHANGED <<platform, isEnabled, frameSkipCount, blinkThreshold,
                   frameCounter, leftEyeStates, rightEyeStates,
                   pipelineInitialized, cap, ctl, wrk, events, now, crashed,
                   eyeVars, js>>

\* the worker's position at face number i of its result
AtFace(w, i) ==
    IF i <= Len(w.faces)
    THEN [w EXCEPT !.pc = "lookupL", !.i = i, !.key = i - 1,
                   !.left = Attached, !.right = Attached,
                   !.leftData = NoOutput]
    ELSE [w EXCEPT !.pc = "emit", !.i = i]

\* processFrame: Vision returns the observations, processFaceObservations
\* begins
IOS_DetectOk(results) ==
    /\ platform = "ios" /\ ~crashed
    /\ wrk.pc = "idle" /\ queue # <<>>
    /\ queue' = Tail(queue)
    /\ \E faces \in results :
         wrk' = AtFace([pc |-> "idle", faces |-> faces,
                        i |-> 1, key |-> 0, left |-> Attached,
                        right |-> Attached, leftData |-> NoOutput,
                        out |-> <<>>], 1)
    /\ events' = <<>>
    /\ ghost' = [ghost EXCEPT !.failed = FALSE]
    /\ UNCHANGED <<platform, isEnabled, frameSkipCount, blinkThreshold,
                   frameCounter, isProcessing, leftEyeStates, rightEyeStates,
                   pipelineInitialized, cap, ctl, now, crashed, eyeVars, js>>

\* get or create: the registry with an entry for key
GetOrCreate(states, key) ==
    IF key \in DOMAIN states THEN states ELSE (key :> NewEyeState) @@ states

\* processFaceObservations: leftEyeState of the face
IOS_LookupLeft ==
    /\ platform = "ios" /\ ~crashed
    /\ wrk.pc = "lookupL"
    /\ leftEyeStates' = GetOrCreate(leftEyeStates, wrk.key)
    /\ wrk' = [wrk EXCEPT !.pc = "lookupR", !.left = Attached]
    /\ UNCHANGED <<platform, isEnabled, frameSkipCount, blinkThreshold,
                   frameCounter, isProcessing, rightEyeStates,
                   pipelineInitialized, cap, ctl, queue, events, now, crashed,
                   ghost, eyeVars, js>>

\* processFaceObservations: rightEyeState of the face; a face without
\* landmarks is added to the result at once
IOS_LookupRight ==
    /\ platform = "ios" /\ ~crashed
    /\ wrk.pc = "lookupR"
    /\ rightEyeStates' = GetOrCreate(rightEyeStates, wrk.key)
    /\ wrk' = IF wrk.faces[wrk.i].landmarks
              THEN [wrk EXCEPT !.pc = "eyeL", !.right = Attached]
              ELSE AtFace([wrk EXCEPT !.out = Append(@,
                              [trackingId |-> wrk.key, landmarks |-> <<>>])],
                          wrk.i + 1)
    /\ UNCHANGED <<platform, isEnabled, frameSkipCount, blinkThreshold,
                   frameCounter, isProcessing, leftEyeStates,
                   pipelineInitialized, cap, ctl, queue, events, now, crashed,
                   ghost, eyeVars, js>>

\* mutant: the calibration is kept once for all eyes, not per EyeState
IOS_EyeLeftShared ==
    /\ platform = "ios" /\ ~crashed
    /\ wrk.pc = "eyeL"
    /\ LET obj == IF wrk.left.det THEN wrk.left.obj ELSE leftEyeStates[wrk.key]
           r == ProcessEyeLandmarks(obj, wrk.faces[wrk.i].left, now,
                                    blinkThreshold, "left", wrk.key)
           share(states) ==
               [k \in DOMAIN states |->
                   [states[k] EXCEPT !.avgEAR = r.state.avgEAR,
                                     !.sampleCount = r.state.sampleCount]]
       IN  /\ leftEyeStates' = IF wrk.left.det THEN share(leftEyeStates)
                               ELSE [share(leftEyeStates) EXCEPT ![wrk.key] = r.state]
           /\ rightEyeStates' = share(rightEyeStates)
           /\ wrk' = [wrk EXCEPT !.pc = "eyeR", !.leftData = r.data,
                                 !.left = IF @.det
                                          THEN [det |-> TRUE, obj |-> r.state]
                                          ELSE @]
           /\ events' = events \o r.blinks
    /\ UNCHANGED <<platform, isEnabled, frameSkipCount, blinkThreshold,
                   frameCounter, isProcessing,
                   pipelineInitialized, cap, ctl, queue, now, crashed, ghost,
                   eyeVars, js>>

\* processEyeLandmarks of the left eye
IOS_EyeLeft ==
    /\ platform = "ios" /\ ~crashed
    /\ wrk.pc = "eyeL"
    /\ LET obj == IF wrk.left.det THEN wrk.left.obj ELSE leftEyeStates[wrk.key]
           r == ProcessEyeLandmarks(obj, wrk.faces[wrk.i].left, now,
                                    blinkThreshold, "left", wrk.key)
       IN  /\ leftEyeStates' = IF wrk.left.det THEN leftEyeStates
                               ELSE [leftEyeStates EXCEPT ![wrk.key] = r.state]
           /\ wrk' = [wrk EXCEPT !.pc = "eyeR", !.leftData = r.data,
                                 !.left = IF @.det
                                          THEN [det |-> TRUE, obj |-> r.state]
                                          ELSE @]
           /\ events' = events \o r.blinks
    /\ UNCHANGED <<platform, isEnabled, frameSkipCount, blinkThreshold,
                   frameCounter, isProcessing, rightEyeStates,
                   pipelineInitialized, cap, ctl, queue, now, crashed, ghost,
                   eyeVars, js>>

\* processEyeLandmarks of the right eye, and the face is added to the result
IOS_EyeRight ==
    /\ platform = "ios" /\ ~crashed
    /\ wrk.pc = "eyeR"
    /\ LET obj == IF wrk.right.det THEN wrk.right.obj
                  ELSE rightEyeStates[wrk.key]
           r == ProcessEyeLandmarks(obj, wrk.faces[wrk.i].right, now,
                                    blinkThreshold, "right", wrk.key)
       IN  /\ rightEyeStates' = IF wrk.right.det THEN rightEyeStates
                                ELSE [rightEyeStates EXCEPT ![wrk.key] = r.state]
           /\ wrk' = AtFace([wrk EXCEPT !.out = Append(@,
                               [trackingId |-> wrk.key,
                                landmarks |-> <<wrk.leftData, r.data>>])],
                            wrk.i + 1)
           /\ events' = events \o r.blinks
    /\ UNCHANGED <<platform, isEnabled, frameSkipCount, blinkThreshold,
                   frameCounter, isProcessing, leftEyeStates,
                   pipelineInitialized, cap, ctl, queue, now, crashed, ghost,
                   eyeVars, js>>

\* mutant: the result is built and not sent
IOS_EmitResultSilent ==
    /\ platform = "ios" /\ ~crashed
    /\ wrk.pc = "emit"
    /\ wrk' = [wrk EXCEPT !.pc = "release"]
    /\ ghost' = [ghost EXCEPT !.afterReset = FALSE]
    /\ UNCHANGED <<platform, isEnabled, frameSkipCount, blinkThreshold,
                   frameCounter, isProcessing, leftEyeStates, rightEyeStates,
                   pipelineInitialized, cap, ctl, queue, events, now, crashed,
                   eyeVars, js>>

\* mutant: the result overtakes the blink events of its frame
IOS_EmitResultFirst ==
    /\ platform = "ios" /\ ~crashed
    /\ wrk.pc = "emit"
    /\ events' = <<[type |-> "faceDetected", faces |-> wrk.out]>> \o events
    /\ wrk' = [wrk EXCEPT !.pc = "release"]
    /\ ghost' = [ghost EXCEPT !.afterReset = FALSE]
    /\ UNCHANGED <<platform, isEnabled, frameSkipCount, blinkThreshold,
                   frameCounter, isProcessing, leftEyeStates, rightEyeStates,
                   pipelineInitialized, cap, ctl, queue, now, crashed, eyeVars, js>>

\* processFaceObservations: sendEventWithName:@"faceDetected"
IOS_EmitResult ==
    /\ platform = "ios" /\ ~crashed
    /\ wrk.pc = "emit"
    /\ events' = Append(events, [type |-> "faceDetected", faces |-> wrk.out])
    /\ wrk' = [wrk EXCEPT !.pc = "release"]
    /\ ghost' = [ghost EXCEPT !.afterReset = FALSE]
    /\ UNCHANGED <<platform, isEnabled, frameSkipCount, blinkThreshold,
                   frameCounter, isProcessing, leftEyeStates, rightEyeStates,
                   pipelineInitialized, cap, ctl, queue, now, crashed, eyeVars, js>>

\* processFrame: the final _isProcessing = NO
IOS_Release ==
    /\ platform = "ios" /\ ~crashed
    /\ wrk.pc = "release"
    /\ isProcessing' = FALSE
    /\ wrk' = Idle
    /\ UNCHANGED <<platform, isEnabled, frameSkipCount, blinkThreshold,
                   frameCounter, leftEyeStates, rightEyeStates,
                   pipelineInitialized, cap, ctl, queue, events, now, crashed,
                   ghost, eyeVars, js>>

\* the wall clock advances
Tick ==
    /\ ~crashed
    /\ \E dt \in Ticks : now + dt <= MaxNow /\ now' = now + dt
    /\ UNCHANGED <<platform, isEnabled, frameSkipCount, blinkThreshold,
                   frameCounter, isProcessing, leftEyeStates, rightEyeStates,
                   pipelineInitialized, cap, ctl, queue, wrk, events, crashed,
                   ghost, eyeVars, js>>

IOS_Capture == IOS_CaptureCheck \/ IOS_CaptureGate
IOS_Analysis ==
    \/ IOS_LookupLeft \/ IOS_LookupRight
    \/ IOS_EyeLeft \/ IOS_EyeRight
    \/ IOS_EmitResult \/ IOS_Release

----------------------------------------------------------------------------
(* The Android processor.                                                  *)

NullId == -1

\* what ML Kit reports for one face: tracking id (or null) and the open
\* probability of each eye (or null, written NoLandmarks)
PlainFaces ==
    {<<>>, <<[trackingId |-> 0, left |-> R(9, 10), right |-> R(9, 10)]>>}
SkipCounts == {0, 2}

\* field initialisers of FaceDetectionProcessor
AND_Init ==
    /\ platform = "android"
    /\ isEnabled = FALSE /\ frameSkipCount = 5 /\ blinkThreshold = R(3, 10)
    /\ leftEyeStates = <<>> /\ rightEyeStates = <<>>
    /\ frameCounter = 0 /\ isProcessing = FALSE
    /\ pipelineInitialized = FALSE
    /\ cap = Idle /\ ctl = Idle /\ queue = <<>> /\ wrk = Idle
    /\ events = <<>> /\ now = 0 /\ crashed = FALSE /\ ghost = GhostInit

\* class EyeState
AND_NewEyeState ==
    [isOpen |-> TRUE, wasOpen |-> TRUE, blinkCount |-> 0,
     currentProbability |-> One]

\* processEye: the registry after the call, the blink events sent, the eye
\* data returned. The lookup, the insertion and the update of one call are
\* taken as one step of the handler thread.
AND_ProcessEye(states, prob, tid, thr, eyeSide, t) ==
    IF prob # NoLandmarks /\ tid # NullId
    THEN LET es == IF tid \in DOMAIN states THEN states[tid] ELSE AND_NewEyeState
             was == es.isOpen
             open == RGt(prob, thr)
             blink == ~was /\ open
             count == IF blink THEN es.blinkCount + 1 ELSE es.blinkCount
         IN  [states |-> (tid :> [isOpen |-> open, wasOpen |-> was,
                                  blinkCount |-> count,
                                  currentProbability |-> prob]) @@ states,
              blinks |-> IF blink
                         THEN <<[type |-> "blinkDetected", timestamp |-> t,
                                 eye |-> eyeSide, trackingId |-> tid]>>
                         ELSE <<>>,
              data |-> [isOpen |-> open, openProbability |-> prob,
                        blinkCount |-> count]]
    ELSE [states |-> states, blinks |-> <<>>, data |-> NoOutput]

\* frameCounter % frameSkipCount != 0 (frameSkipCount >= 1 by setFrameSkipCount)
AND_SkipFrame(counter, n) == counter % n # 0

\* process up to the isEnabled / pipelineInitialized test
AND_ProcessCheck ==
    /\ platform = "android" /\ ~crashed
    /\ cap.pc = "idle" /\ frameCounter < MaxCounter /\ Len(queue) < MaxQueue
    /\ cap' = IF isEnabled /\ pipelineInitialized THEN [pc |-> "a_incr"] ELSE Idle
    /\ UNCHANGED <<platform, isEnabled, frameSkipCount, blinkThreshold,
                   frameCounter, isProcessing, leftEyeStates, rightEyeStates,
                   pipelineInitialized, ctl, queue, wrk, events, now, crashed,
                   ghost, eyeVars, js>>

\* frameCounter++ : the field is read
AND_CounterLoad ==
    /\ platform = "android" /\ ~crashed
    /\ cap.pc = "a_incr"
    /\ cap' = [pc |-> "a_store", tmp |-> frameCounter]
    /\ UNCHANGED <<platform, isEnabled, frameSkipCount, blinkThreshold,
                   frameCounter, isProcessing, leftEyeStates, rightEyeStates,
                   pipelineInitialized, ctl, queue, wrk, events, now, crashed,
                   ghost, eyeVars, js>>

\* frameCounter++ : the field is written
AND_CounterStore ==
    /\ platform = "android" /\ ~crashed
    /\ cap.pc = "a_store"
    /\ frameCounter' = cap.tmp + 1
    /\ cap' = [pc |-> "a_mod"]
    /\ UNCHANGED <<platform, isEnabled, frameSkipCount, blinkThreshold,
                   isProcessing, leftEyeStates, rightEyeStates,
                   pipelineInitialized, ctl, queue, wrk, events, now, crashed,
                   ghost, eyeVars, js>>

\* the decisions of process for the counter it reads back: "skip" | "busy" |
\* "syncfail" (admitted, the conversion or detector.process fails at once) |
\* "admit" (admitted, the detection is posted)
AND_Gate(counter) ==
    IF AND_SkipFrame(counter, frameSkipCount) THEN {"skip"}
    ELSE IF isProcessing THEN {"busy"}
    ELSE {"syncfail", "admit"}

\* process: the counter test, compareAndSet, the synchronous conversion
AND_ProcessGate ==
    /\ platform = "android" /\ ~crashed
    /\ cap.pc = "a_mod"
    /\ \E d \in AND_Gate(frameCounter) :
         /\ isProcessing' = (isProcessing \/ d = "admit")
         /\ queue' = IF d = "admit" THEN Append(queue, "image") ELSE queue
         /\ ghost' = [GateGhost(IF d = "syncfail" THEN "admit" ELSE d)
                         EXCEPT !.failed = IF d = "syncfail" THEN TRUE ELSE @]
    /\ cap' = Idle
    /\ UNCHANGED <<platform, isEnabled, frameSkipCount, blinkThreshold,
                   frameCounter, leftEyeStates, rightEyeStates,
                   pipelineInitialized, ctl, wrk, events, now, crashed, eyeVars, js>>

\* public void reset()
AND_ResetBody ==
    /\ leftEyeStates' = <<>>
    /\ rightEyeStates' = <<>>
    /\ frameCounter' = 0

\* setEnabled(true)
AND_SetEnabledTrue ==
    /\ platform = "android" /\ ~crashed
    /\ ctl.pc = "idle"
    /\ isEnabled' = TRUE
    /\ pipelineInitialized' = TRUE
    /\ ghost' = [ghost EXCEPT !.disabledDone = FALSE]
    /\ UNCHANGED <<platform, frameSkipCount, blinkThreshold, frameCounter,
                   isProcessing, leftEyeStates, rightEyeStates, cap, ctl, queue,
                   wrk, events, now, crashed, eyeVars, js>>

\* setEnabled(false): this.isEnabled = enabled
AND_SetEnabledFalse ==
    /\ platform = "android" /\ ~crashed
    /\ ctl.pc = "idle"
    /\ isEnabled' = FALSE
    /\ ctl' = [pc |-> "dis_reset"]
    /\ UNCHANGED <<platform, frameSkipCount, blinkThreshold, frameCounter,
                   isProcessing, leftEyeStates, rightEyeStates,
                   pipelineInitialized, cap, queue, wrk, events, now, crashed,
                   ghost, eyeVars, js>>

\* setEnabled(false): reset()
AND_DisableReset ==
    /\ platform = "android" /\ ~crashed
    /\ ctl.pc = "dis_reset"
    /\ AND_ResetBody
    /\ ghost' = ResetGhost(TRUE)
    /\ ctl' = Idle
    /\ UNCHANGED <<platform, isEnabled, frameSkipCount, blinkThreshold,
                   isProcessing, pipelineInitialized, cap, queue, wrk, events,
                   now, crashed, eyeVars, js>>

Max(a, b) == IF a > b THEN a ELSE b

\* setFrameSkipCount
AND_SetFrameSkipCount ==
    /\ platform = "android" /\ ~crashed
    /\ ctl.pc = "idle"
    /\ \E count \in SkipCounts : frameSkipCount' = Max(1, count)
    /\ ghost' = IF frameSkipCount' = frameSkipCount \/ ghost.k = 0
                THEN ghost ELSE Unclean(ghost)
    /\ UNCHANGED <<platform, isEnabled, blinkThreshold, frameCounter,
                   isProcessing, leftEyeStates, rightEyeStates,
                   pipelineInitialized, cap, ctl, queue, wrk, events, now,
                   crashed, eyeVars, js>>

\* runFaceDetection: detector.process throws, or the failure listener runs
AND_DetectionFailed ==
    /\ platform = "android" /\ ~crashed
    /\ wrk.pc = "idle" /\ queue # <<>>
    /\ queue' = Tail(queue)
    /\ isProcessing' = FALSE
    /\ ghost' = [ghost EXCEPT !.failed = TRUE]
    /\ UNCHANGED <<platform, isEnabled, frameSkipCount, blinkThreshold,
                   frameCounter, leftEyeStates, rightEyeStates,
                   pipelineInitialized, cap, ctl, wrk, events, now, crashed,
                   eyeVars, js>>

\* the worker's position at face number i of the detector's list
AND_AtFace(w, i) ==
    IF i <= Len(w.faces)
    THEN [w EXCEPT !.pc = "a_left", !.i = i, !.leftData = NoOutput]
    ELSE [w EXCEPT !.pc = "a_emit", !.i = i]

\* the success listener runs: processFaceResults begins
AND_TaskSucceeded(results) ==
    /\ platform = "android" /\ ~crashed
    /\ wrk.pc = "idle" /\ queue # <<>>
    /\ queue' = Tail(queue)
    /\ \E faces \in results :
         wrk' = AND_AtFace([pc |-> "idle", faces |-> faces, i |-> 1,
                            leftData |-> NoOutput, out |-> <<>>], 1)
    /\ events' = <<>>
    /\ ghost' = [ghost EXCEPT !.failed = FALSE]
    /\ UNCHANGED <<platform, isEnabled, frameSkipCount, blinkThreshold,
                   frameCounter, isProcessing, leftEyeStates, rightEyeStates,
                   pipelineInitialized, cap, ctl, now, crashed, eyeVars, js>>

\* processFaceResults: processEye of the left eye
AND_EyeLeft ==
    /\ platform = "android" /\ ~crashed
    /\ wrk.pc = "a_left"
    /\ LET f == wrk.faces[wrk.i]
           r == AND_ProcessEye(leftEyeStates, f.left, f.trackingId,
                               blinkThreshold, "left", now)
       IN  /\ leftEyeStates' = r.states
           /\ events' = events \o r.blinks
           /\ wrk' = [wrk EXCEPT !.pc = "a_right", !.leftData = r.data]
    /\ UNCHANGED <<platform, isEnabled, frameSkipCount, blinkThreshold,
                   frameCounter, isProcessing, rightEyeStates,
                   pipelineInitialized, cap, ctl, queue, now, crashed, ghost,
                   eyeVars, js>>

\* processFaceResults: processEye of the right eye, the face is pushed
AND_EyeRight ==
    /\ platform = "android" /\ ~crashed
    /\ wrk.pc = "a_right"
    /\ LET f == wrk.faces[wrk.i]
           r == AND_ProcessEye(rightEyeStates, f.right, f.trackingId,
                               blinkThreshold, "right", now)
       IN  /\ rightEyeStates' = r.states
           /\ events' = events \o r.blinks
           /\ wrk' = AND_AtFace([wrk EXCEPT !.out = Append(@,
                                   [trackingId |-> f.trackingId,
                                    landmarks |-> <<wrk.leftData, r.data>>])],
                                wrk.i + 1)
    /\ UNCHANGED <<platform, isEnabled, frameSkipCount, blinkThreshold,
                   frameCounter, isProcessing, leftEyeStates,
                   pipelineInitialized, cap, ctl, queue, now, crashed, ghost,
                   eyeVars, js>>

\* processFaceResults: sendEvent(EVENT_FACE_DETECTED, result)
AND_EmitResult ==
    /\ platform = "android" /\ ~crashed
    /\ wrk.pc = "a_emit"
    /\ events' = Append(events, [type |-> "faceDetected", faces |-> wrk.out])
    /\ wrk' = [wrk EXCEPT !.pc = "a_release"]
    /\ ghost' = [ghost EXCEPT !.afterReset = FALSE]
    /\ UNCHANGED <<platform, isEnabled, frameSkipCount, blinkThreshold,
                   frameCounter, isProcessing, leftEyeStates, rightEyeStates,
                   pipelineInitialized, cap, ctl, queue, now, crashed, eyeVars, js>>

\* the success listener: isProcessing.set(false)
AND_Release ==
    /\ platform = "android" /\ ~crashed
    /\ wrk.pc = "a_release"
    /\ isProcessing' = FALSE
    /\ wrk' = Idle
    /\ UNCHANGED <<platform, isEnabled, frameSkipCount, blinkThreshold,
                   frameCounter, leftEyeStates, rightEyeStates,
                   pipelineInitialized, cap, ctl, queue, events, now, crashed,
                   ghost, eyeVars, js>>

AND_Capture ==
    AND_ProcessCheck \/ AND_CounterLoad \/ AND_CounterStore \/ AND_ProcessGate
AND_Control ==
    \/ AND_SetEnabledTrue \/ AND_SetEnabledFalse \/ AND_DisableReset
    \/ AND_SetFrameSkipCount
AND_Analysis ==
    AND_EyeLeft \/ AND_EyeRight \/ AND_EmitResult \/ AND_Release

----------------------------------------------------------------------------
(* The JavaScript side: configureWebRTC, the track methods, and the        *)
(* useBlinkDetection hook. js.call / js.pc follow the promise of the track *)
(* method the hook awaits; js.calls, js.prev, js.sent and js.heard are     *)
(* history fields used only by the properties.                             *)

MaxCalls == 3
MaxBlinks == 12
RecentLimit == 10
Null == "null"
\* lastBlinkTime: null, or the number t as <<t>>
NoTime == <<>>
TrackKinds == {"video", "audio"}

\* useState initial values; globalConfig of FaceDetection.types.ts
JsInit(kind) ==
    [kind |-> kind, enableFaceDetection |-> FALSE,
     call |-> "none", prev |-> "none", pc |-> "idle", calls |-> 0,
     isEnabled |-> FALSE, error |-> Null,
     blinkCount |-> 0, lastBlinkTime |-> NoTime, recentBlinks |-> <<>>,
     subscribed |-> FALSE, sent |-> 0, heard |-> <<>>, face |-> <<>>]

\* configureWebRTC({enableFaceDetection: b})
ConfigureWebRTC ==
    /\ js # <<>> /\ js.pc = "idle"
    /\ js' = [js EXCEPT !.enableFaceDetection = ~@]
    /\ UNCHANGED <<procVars, eyeVars>>

\* mutant: the track method passes every call on to the module
Track_EnableAlways(j) == "posted"

\* MediaStreamTrack.enableFaceDetection: throws if face detection is
\* disabled in the module configuration or the track is not a video track,
\* and calls the module method otherwise
Track_EnableFaceDetection(j) ==
    IF j.kind = "video" /\ j.enableFaceDetection THEN "posted" ELSE "rejected"

\* the hook's enable up to the await
Hook_Enable ==
    /\ js # <<>> /\ js.pc = "idle" /\ js.calls < MaxCalls
    /\ js' = IF js.kind # "video"
             THEN [js EXCEPT !.error = "video tracks only",
                             !.call = "enable", !.prev = js.call,
                             !.calls = @ + 1]
             ELSE [js EXCEPT !.pc = Track_EnableFaceDetection(js),
                             !.call = "enable", !.prev = js.call,
                             !.calls = @ + 1]
    /\ UNCHANGED <<procVars, eyeVars>>

\* the hook's enable after the await: setIsEnabled(true), setError(null)
\* and the effects of the render that follows: the listener effect subscribes
Hook_EnableResolved ==
    /\ js # <<>> /\ js.pc = "resolved" /\ js.call = "enable"
    /\ js' = [js EXCEPT !.pc = "idle", !.isEnabled = TRUE, !.error = Null,
                        !.subscribed = TRUE]
    /\ UNCHANGED <<procVars, eyeVars>>

\* the effects of a render in which isEnabled has become false: the
\* listener effect's cleanup removes the subscription, and the cleanup of the
\* effect on [isEnabled, disable], created while isEnabled was true, calls
\* disable() once more
Unsubscribed(j) ==
    IF j.isEnabled
    THEN [j EXCEPT !.isEnabled = FALSE, !.subscribed = FALSE,
                   !.pc = "posted", !.prev = j.call, !.call = "disable"]
    ELSE [j EXCEPT !.isEnabled = FALSE, !.subscribed = FALSE, !.pc = "idle"]

\* the hook's enable, catch: setError(err), setIsEnabled(false)
Hook_EnableRejected ==
    /\ js # <<>> /\ js.pc = "rejected" /\ js.call = "enable"
    /\ js' = Unsubscribed([js EXCEPT !.error = "rejected"])
    /\ UNCHANGED <<procVars, eyeVars>>

\* the hook's disable up to the await: track.disableFaceDetection()
Hook_Disable ==
    /\ js # <<>> /\ js.pc = "idle" /\ js.calls < MaxCalls
    /\ js' = [js EXCEPT !.pc = "posted", !.call = "disable",
                        !.prev = js.call, !.calls = @ + 1]
    /\ UNCHANGED <<procVars, eyeVars>>

\* the hook's disable after the await: setIsEnabled(false), setError(null)
Hook_DisableResolved ==
    /\ js # <<>> /\ js.pc = "resolved" /\ js.call = "disable"
    /\ js' = Unsubscribed([js EXCEPT !.error = Null])
    /\ UNCHANGED <<procVars, eyeVars>>

\* the hook's disable, catch: setError(err)
Hook_DisableRejected ==
    /\ js # <<>> /\ js.pc = "rejected" /\ js.call = "disable"
    /\ js' = [js EXCEPT !.pc = "idle", !.error = "rejected"]
    /\ UNCHANGED <<procVars, eyeVars>>

\* useFaceDetection on the same track: useState initial values
FaceInit ==
    [call |-> "none", pc |-> "idle", calls |-> 0, isEnabled |-> FALSE,
     error |-> Null, detectionResult |-> Null]

\* useFaceDetection: enable up to the await
Face_Enable ==
    /\ js # <<>> /\ js.face # <<>>
    /\ js.face.pc = "idle" /\ js.face.calls < MaxCalls
    /\ js' = IF js.kind # "video"
             THEN [js EXCEPT !.face.error = "video tracks only",
                             !.face.call = "enable", !.face.calls = @ + 1]
             ELSE [js EXCEPT !.face.pc = Track_EnableFaceDetection(js),
                             !.face.call = "enable", !.face.calls = @ + 1]
    /\ UNCHANGED <<procVars, eyeVars>>

\* useFaceDetection: enable after the await
Face_EnableResolved ==
    /\ js # <<>> /\ js.face # <<>>
    /\ js.face.pc = "resolved" /\ js.face.call = "enable"
    /\ js' = [js EXCEPT !.face.pc = "idle", !.face.isEnabled = TRUE,
                        !.face.error = Null]
    /\ UNCHANGED <<procVars, eyeVars>>

\* useFaceDetection: the effects of a render in which isEnabled has become
\* false; the cleanup of the effect on [isEnabled, disable] calls disable()
FaceUnsubscribed(h) ==
    IF h.isEnabled
    THEN [h EXCEPT !.isEnabled = FALSE, !.pc = "posted", !.call = "disable"]
    ELSE [h EXCEPT !.isEnabled = FALSE, !.pc = "idle"]

\* useFaceDetection: enable, catch
Face_EnableRejected ==
    /\ js # <<>> /\ js.face # <<>>
    /\ js.face.pc = "rejected" /\ js.face.call = "enable"
    /\ js' = [js EXCEPT !.face = FaceUnsubscribed([@ EXCEPT !.error = "rejected"])]
    /\ UNCHANGED <<procVars, eyeVars>>

\* useFaceDetection: disable up to the await
Face_Disable ==
    /\ js # <<>> /\ js.face # <<>>
    /\ js.face.pc = "idle" /\ js.face.calls < MaxCalls
    /\ js' = [js EXCEPT !.face.pc = "posted", !.face.call = "disable",
                        !.face.calls = @ + 1]
    /\ UNCHANGED <<procVars, eyeVars>>

\* useFaceDetection: disable after the await: setIsEnabled(false),
\* setDetectionResult(null), setError(null)
Face_DisableResolved ==
    /\ js # <<>> /\ js.face # <<>>
    /\ js.face.pc = "resolved" /\ js.face.call = "disable"
    /\ js' = [js EXCEPT !.face = FaceUnsubscribed(
                           [@ EXCEPT !.error = Null, !.detectionResult = Null])]
    /\ UNCHANGED <<procVars, eyeVars>>

\* mutant: the listener keeps every event
KeepAll(blinks) == blinks

\* updated.slice(-10)
SliceRecent(blinks) ==
    IF Len(blinks) <= RecentLimit THEN blinks
    ELSE SubSeq(blinks, Len(blinks) - RecentLimit + 1, Len(blinks))

\* mutant: the listener counts an event twice
ListenerCountsTwice(j, event) ==
    [j EXCEPT !.blinkCount = @ + 2,
              !.lastBlinkTime = <<event.timestamp>>,
              !.recentBlinks = SliceRecent(Append(@, event))]

\* the blinkDetected listener of the hook
Listener(j, event) ==
    [j EXCEPT !.blinkCount = @ + 1,
              !.lastBlinkTime = <<event.timestamp>>,
              !.recentBlinks = SliceRecent(Append(@, event))]

\* the emitter delivers a blinkDetected event: the hook's listener runs if
\* it is subscribed; the events are numbered by their timestamps
BlinkDetected ==
    /\ js # <<>> /\ js.sent < MaxBlinks
    /\ LET event == [timestamp |-> js.sent + 1]
       IN  js' = IF js.subscribed
                 THEN [Listener(js, event) EXCEPT
                          !.sent = @ + 1, !.heard = Append(@, event)]
                 ELSE [js EXCEPT !.sent = @ + 1]
    /\ UNCHANGED <<procVars, eyeVars>>

\* resetCount
Hook_ResetCount ==
    /\ js # <<>>
    /\ js' = [js EXCEPT !.blinkCount = 0, !.lastBlinkTime = NoTime,
                        !.recentBlinks = <<>>, !.heard = <<>>]
    /\ UNCHANGED <<procVars, eyeVars>>

\* the module method called by the track settles its promise
Module_Settle ==
    /\ js # <<>> /\ js.pc = "posted"
    /\ \E outcome \in {"resolved", "rejected"} :
         js' = [js EXCEPT !.pc = outcome]
    /\ UNCHANGED <<procVars, eyeVars>>

----------------------------------------------------------------------------
(* Specifications of the processor.                                        *)

\* the processor with its control layer, scenes of at most one open-eyed face
ProcInit == (IOS_Init \/ AND_Init) /\ EyeIdle
ProcWorker ==
    \/ IOS_FrameFailed \/ IOS_DetectOk(PlainResults) \/ IOS_Analysis
    \/ AND_DetectionFailed \/ AND_TaskSucceeded(PlainFaces) \/ AND_Analysis
ProcNext ==
    \/ IOS_Capture
    \/ IOS_EnableBegin(Configs) \/ IOS_EnableConfig
    \/ IOS_DisableBegin \/ IOS_DisableReset
    \/ AND_Capture \/ AND_Control
    \/ ProcWorker
Spec == ProcInit /\ [][ProcNext]_vars
\* the state enableFaceDetection({frameSkipCount: 1, blinkThreshold: 0.5})
\* leaves a new iOS processor in
IOS_Running ==
    /\ platform = "ios"
    /\ isEnabled = TRUE /\ frameSkipCount = 1 /\ blinkThreshold = R(1, 2)
    /\ leftEyeStates = <<>> /\ rightEyeStates = <<>>
    /\ frameCounter = 0 /\ isProcessing = FALSE
    /\ pipelineInitialized = FALSE
    /\ cap = Idle /\ ctl = Idle /\ queue = <<>> /\ wrk = Idle
    /\ events = <<>> /\ now = 0 /\ crashed = FALSE /\ ghost = GhostInit

\* the state setFrameSkipCount(1), setEnabled(true) leave a new Android
\* processor in
AND_Running ==
    /\ platform = "android"
    /\ isEnabled = TRUE /\ frameSkipCount = 1 /\ blinkThreshold = R(3, 10)
    /\ leftEyeStates = <<>> /\ rightEyeStates = <<>>
    /\ frameCounter = 0 /\ isProcessing = FALSE
    /\ pipelineInitialized = TRUE
    /\ cap = Idle /\ ctl = Idle /\ queue = <<>> /\ wrk = Idle
    /\ events = <<>> /\ now = 0 /\ crashed = FALSE /\ ghost = GhostInit

\* the enabled processor, frames arriving, until it is disabled; the
\* processing queue, the handler thread and the detector's listeners run
\* whatever is posted to them
GuardInit == (IOS_Running \/ AND_Running) /\ EyeIdle
GuardNext ==
    \/ IOS_Capture \/ AND_Capture
    \/ IOS_DisableBegin \/ IOS_DisableReset
    \/ AND_SetEnabledFalse \/ AND_DisableReset
    \/ ProcWorker
SpecGuard == GuardInit /\ [][GuardNext]_vars /\ WF_vars(ProcWorker)

\* the processor enabled with any frameSkipCount the control layer accepts
ConfigNext ==
    \/ IOS_Capture \/ IOS_EnableBegin(AnyConfigs) \/ IOS_EnableConfig
    \/ AND_Capture \/ AND_SetEnabledTrue \/ AND_SetFrameSkipCount
    \/ ProcWorker
SpecConfig == ProcInit /\ [][ConfigNext]_vars

\* the iOS processor enabled with frameSkipCount 1 and blinkThreshold 0.5,
\* blinking faces, the clock running
BlinkInit == IOS_Running /\ EyeIdle
BlinkNext ==
    \/ IOS_Capture
    \/ IOS_EnableBegin({NoConfig})
    \/ IOS_DisableBegin \/ IOS_DisableReset
    \/ IOS_FrameFailed \/ IOS_DetectOk(IOSResults) \/ IOS_Analysis
    \/ Tick
SpecBlink == BlinkInit /\ [][BlinkNext]_vars

\* the Android processor enabled with frameSkipCount 1, one tracked face
\* whose eyes open and close, the clock running
AND_BlinkFaces ==
    {<<>>} \cup
    {<<[trackingId |-> 0, left |-> p, right |-> q]>> :
        p \in {R(1, 10), R(9, 10)}, q \in {R(1, 10), R(9, 10)}}
TrackInit == AND_Running /\ EyeIdle
TrackNext ==
    \/ AND_Capture
    \/ AND_DetectionFailed \/ AND_TaskSucceeded(AND_BlinkFaces) \/ AND_Analysis
    \/ Tick
SpecTrack == TrackInit /\ [][TrackNext]_vars

\* the enabled processors watching scenes of up to two faces
IOS_TwoFaces ==
    LET open == [landmarks |-> TRUE, left |-> R(3, 10), right |-> R(3, 10)]
        half == [landmarks |-> TRUE, left |-> R(1, 10), right |-> NoLandmarks]
    IN  {<<open>>, <<half>>, <<open, half>>, <<half, open>>}
AND_TwoFaces ==
    LET a == [trackingId |-> 0, left |-> R(9, 10), right |-> R(1, 10)]
        b == [trackingId |-> 1, left |-> R(1, 10), right |-> R(9, 10)]
        c == [trackingId |-> 1, left |-> R(9, 10), right |-> R(9, 10)]
    IN  {<<a>>, <<a, b>>, <<b, a>>, <<a, c>>}
FacesInit == (IOS_Running \/ AND_Running) /\ EyeIdle
FacesNext ==
    \/ IOS_Capture \/ IOS_DetectOk(IOS_TwoFaces) \/ IOS_Analysis
    \/ AND_Capture \/ AND_TaskSucceeded(AND_TwoFaces) \/ AND_Analysis
SpecFaces == FacesInit /\ [][FacesNext]_vars

\* the enabled iOS processor watching one or two faces whose eyes close and
\* open together, the clock running, until it is disabled
IOS_OrderResults ==
    LET open == [landmarks |-> TRUE, left |-> R(3, 10), right |-> R(3, 10)]
        shut == [landmarks |-> TRUE, left |-> R(1, 10), right |-> R(1, 10)]
    IN  {<<open>>, <<shut>>, <<open, open>>, <<shut, shut>>}
OrderInit == IOS_Running /\ EyeIdle
OrderNext ==
    \/ IOS_Capture
    \/ IOS_DisableBegin \/ IOS_DisableReset
    \/ IOS_DetectOk(IOS_OrderResults) \/ IOS_Analysis
    \/ Tick
SpecOrder == OrderInit /\ [][OrderNext]_vars

\* the iOS module driven by the hook: one call at a time, frames arriving
ControlInit ==
    /\ IOS_Init
    /\ eye = NewEyeState /\ eNow = 0 /\ eThr = Zero /\ eLog = <<>>
    /\ eCount = 0 /\ eOut = NoOutput /\ script = <<>> /\ calib = <<>> /\ lid = <<>>
    /\ vep = <<>> /\ srv = <<>>
    /\ \E kind \in TrackKinds : js = JsInit(kind)
ControlNext ==
    \/ ConfigureWebRTC
    \/ Hook_Enable \/ Hook_EnableResolved \/ Hook_EnableRejected
    \/ Hook_Disable \/ Hook_DisableResolved
    \/ IOS_EnableBegin(Configs) \/ IOS_EnableConfig
    \/ IOS_DisableBegin \/ IOS_DisableReset
    \/ IOS_Capture
    \/ IOS_FrameFailed \/ IOS_DetectOk(PlainResults) \/ IOS_Analysis
SpecControl == ControlInit /\ [][ControlNext]_vars

\* useBlinkDetection and useFaceDetection on one video track of the iOS
\* module, face detection switched on in the module configuration
TwoHooksInit ==
    /\ IOS_Init
    /\ eye = NewEyeState /\ eNow = 0 /\ eThr = Zero /\ eLog = <<>>
    /\ eCount = 0 /\ eOut = NoOutput /\ script = <<>> /\ calib = <<>> /\ lid = <<>>
    /\ vep = <<>> /\ srv = <<>>
    /\ js = [JsInit("video") EXCEPT !.enableFaceDetection = TRUE,
                                    !.face = FaceInit]
TwoHooksNext ==
    \/ ConfigureWebRTC
    \/ Hook_Enable \/ Hook_EnableResolved \/ Hook_EnableRejected
    \/ Hook_Disable \/ Hook_DisableResolved
    \/ Face_Enable \/ Face_EnableResolved \/ Face_EnableRejected
    \/ Face_Disable \/ Face_DisableResolved
    \/ IOS_EnableBegin({NoConfig})
    \/ IOS_DisableBegin \/ IOS_DisableReset
SpecTwoHooks == TwoHooksInit /\ [][TwoHooksNext]_vars

\* no processor object
ProcOff ==
    /\ platform = "none" /\ isEnabled = FALSE /\ frameSkipCount = 0
    /\ blinkThreshold = Zero /\ frameCounter = 0 /\ isProcessing = FALSE
    /\ leftEyeStates = <<>> /\ rightEyeStates = <<>> /\ pipelineInitialized = FALSE
    /\ cap = <<>> /\ ctl = <<>> /\ queue = <<>> /\ wrk = <<>>
    /\ events = <<>> /\ now = 0 /\ crashed = FALSE /\ ghost = <<>>

\* the hook alone: calls, events and resets in any order, the module
\* resolving or rejecting each call
HookInit ==
    /\ ProcOff
    /\ eye = NewEyeState /\ eNow = 0 /\ eThr = Zero /\ eLog = <<>>
    /\ eCount = 0 /\ eOut = NoOutput /\ script = <<>> /\ calib = <<>> /\ lid = <<>>
    /\ vep = <<>> /\ srv = <<>>
    /\ \E kind \in TrackKinds : js = JsInit(kind)
HookNext ==
    \/ ConfigureWebRTC
    \/ Hook_Enable \/ Hook_EnableResolved \/ Hook_EnableRejected
    \/ Hook_Disable \/ Hook_DisableResolved \/ Hook_DisableRejected
    \/ Module_Settle
    \/ BlinkDetected
    \/ Hook_ResetCount
SpecHook == HookInit /\ [][HookNext]_vars

----------------------------------------------------------------------------
(* Properties of the processor.                                            *)

\* analyses admitted and not yet completed
Outstanding == Len(queue) + (IF wrk.pc = "idle" THEN 0 ELSE 1)

\* C1: admission determinism. Since the counter was last 0, with
\* frameSkipCount = N >= 1 unchanged and no frame dropped as busy, of the k
\* frames that reached the gate exactly floor(k / N) were admitted, and the
\* k-th was admitted iff k mod N = 0 (iOS and Android).
C1_AdmissionDeterminism ==
    (ghost.clean /\ frameSkipCount >= 1) =>
        /\ ghost.adm = ghost.k \div frameSkipCount
        /\ ghost.k > 0 => (ghost.lastAdmit <=> ghost.k % frameSkipCount = 0)

C1_Witness ==
    /\ platform = "ios" /\ isEnabled /\ ghost.clean
    /\ frameSkipCount = 2 /\ ghost.k = 4 /\ ghost.adm = 2 /\ ghost.lastAdmit

\* C2: in the iOS processor at most one analysis is admitted and not yet
\* completed at any time; no frame is queued behind an outstanding analysis.
C2_AtMostOneOutstanding ==
    platform = "ios" => Outstanding <= 1

\* C11: mutations of the EyeState registry are mutually exclusive: reset
\* never runs while the worker is between the get-or-create and the update
\* of an analysis, so the worker never holds an EyeState that reset has
\* taken out of the registry.
C11_RegistryExclusive ==
    (platform = "ios" /\ wrk.pc \in {"lookupR", "eyeL", "eyeR"}) =>
        ~wrk.left.det /\ ~wrk.right.det

\* C12: once the frame-delivery call has returned the processor holds no
\* reference to the raw video frame: nothing posted for analysis refers to it.
C12_NoFrameRetained ==
    cap.pc = "idle" => \A i \in DOMAIN queue : queue[i] # "frame"

\* C13: frame delivery returns the frame it was given in every state: it
\* never ends the process instead of returning.
C13_DeliveryReturns == ~crashed

\* C6: every admitted frame releases the in-flight guard: each step that
\* completes an analysis, on the failure paths and on the success path,
\* leaves the guard clear, and a set guard is eventually clear again (iOS
\* and Android).
C6_GuardReleased ==
    /\ [][Outstanding' < Outstanding => ~isProcessing']_vars
    /\ isProcessing ~> ~isProcessing

C6_Witness ==
    /\ platform = "ios" /\ ghost.failed /\ ghost.clean /\ ghost.adm = 2
    /\ isProcessing /\ Outstanding = 1

\* a step in which an admitted frame fails: the worker takes it off the
\* queue without starting an analysis, or (Android) the frame passes the
\* gate and the conversion fails before anything is posted
FailureStep ==
    \/ Len(queue') < Len(queue) /\ wrk.pc = "idle" /\ wrk'.pc = "idle"
    \/ /\ platform = "android" /\ cap.pc = "a_mod" /\ cap'.pc = "idle"
       /\ ~AND_SkipFrame(frameCounter, frameSkipCount) /\ ~isProcessing
       /\ queue' = queue

\* C7: a frame that fails transiently emits no faceDetected and no
\* blinkDetected event and leaves both EyeState registries as they were.
C7_FailureEmitsNothing ==
    [][FailureStep => /\ events' = events
                      /\ leftEyeStates' = leftEyeStates
                      /\ rightEyeStates' = rightEyeStates]_vars

C7_Witness ==
    /\ platform = "ios" /\ ghost.failed /\ Outstanding = 0
    /\ 0 \in DOMAIN leftEyeStates /\ 0 \in DOMAIN rightEyeStates
    /\ Len(events) = 1 /\ events[1].faces # <<>>

\* C8: once disableFaceDetection has completed, no frame is admitted until
\* the next enableFaceDetection.
C8_NoAdmissionWhileDisabled ==
    [][ghost.disabledDone =>
          /\ Len(queue') <= Len(queue)
          /\ isProcessing' => isProcessing]_vars

\* C9: once disableFaceDetection has completed, no faceDetected and no
\* blinkDetected event is emitted until the pipeline is enabled again.
C9_NoEventWhileDisabled ==
    [][ghost.disabledDone => Len(events') <= Len(events)]_vars

\* C10: after disableFaceDetection has completed and until the next enable,
\* the registry holds no EyeState and the frame counter is 0.
C10_ClearedWhileDisabled ==
    ghost.disabledDone =>
        /\ leftEyeStates = <<>> /\ rightEyeStates = <<>>
        /\ frameCounter = 0

\* the blinkCount values a faceDetected event reports
ReportedCounts(ev) ==
    {ev.faces[i].landmarks[j].blinkCount :
        i \in {n \in DOMAIN ev.faces : ev.faces[n].landmarks # <<>>},
        j \in 1..2}

\* C4: blinkCount never decreases and grows by at most 1 per analysed frame;
\* the first faceDetected after reset() reports blinkCount 0 for every eye.
C4_CountZeroAfterReset ==
    [][(ghost.afterReset /\ Len(events') = Len(events) + 1
        /\ events'[Len(events')].type = "faceDetected")
          => ReportedCounts(events'[Len(events')]) \subseteq {0}]_vars

----------------------------------------------------------------------------
(* Single-eye specifications: the tracker applied to one EyeState.         *)

MaxObs == 3
MaxWarm == 32

EarValues == {R(1, 10), R(3, 10)}
Observations == EarValues \cup {NoLandmarks}
Gaps == {33, 50, 100, 400}
Thresholds == {R(1, 2), R(3, 5)}
WarmCounts == {0, 9, 28}

\* the EyeState after n samples of EAR 0.30 with open eyes: every field but
\* sampleCount keeps the value EyeState init gave it (avgEAR stays 0.30)
Warm(n, thr) == [NewEyeState EXCEPT !.sampleCount = n]

ProcIdle == ProcOff /\ js = <<>>

EyeInit ==
    /\ ProcIdle
    /\ eThr \in Thresholds
    /\ \E n \in WarmCounts : eye = Warm(n, eThr)
    /\ eNow = 0 /\ eLog = <<>> /\ eCount = 0 /\ eOut = NoOutput /\ script = <<>>
    /\ calib = <<>> /\ lid = <<>>
    /\ vep = <<>> /\ srv = <<>>

\* one call of processEyeLandmarks at time t
Feed(obs, t) ==
    LET r == ProcessEyeLandmarks(eye, obs, t, eThr, "left", 0)
    IN  /\ eye' = r.state
        /\ eNow' = t
        /\ eLog' = eLog \o r.blinks
        /\ eCount' = eCount + 1
        /\ eOut' = r.data

EyeObserve ==
    /\ eCount < MaxObs
    /\ \E obs \in Observations, dt \in Gaps : Feed(obs, eNow + dt)
    /\ UNCHANGED <<eThr, script, calib, lid, vep, srv,
                 procVars, js>>

EyeNext == EyeObserve
SpecEye == EyeInit /\ [][EyeNext]_vars

ScenarioTimes == <<0, 33, 66, 166, 233>>
Scripts ==
    {[i \in 1..5 |-> <<e[i], ScenarioTimes[i]>>] : e \in [1..5 -> EarValues]}

ScenarioInit ==
    /\ ProcIdle
    /\ eThr \in Thresholds
    /\ \E n \in CalibrationSamples..MaxWarm : eye = Warm(n, eThr)
    /\ script \in Scripts
    /\ eNow = 0 /\ eLog = <<>> /\ eCount = 0 /\ eOut = NoOutput
    /\ calib = <<>> /\ lid = <<>>
    /\ vep = <<>> /\ srv = <<>>

ScenarioStep ==
    /\ eCount < Len(script)
    /\ Feed(script[eCount + 1][1], script[eCount + 1][2])
    /\ UNCHANGED <<eThr, script, calib, lid, vep, srv,
                 procVars, js>>

ScenarioNext == ScenarioStep
SpecScenario == ScenarioInit /\ [][ScenarioNext]_vars

\* the calibration and the steady state of avgEAR: a new eye fed one value
\* CalibRun times or any CalibMixed values, and an eye at the end of its
\* calibration fed any CalibMixed values
CalibRun == 31
CalibMixed == 3
SteadyRun == 2
CalibEars == {Zero, R(1, 10), R(17, 100), R(3, 10)}
FmaModes == {"sep", "fmaA", "fmaE"}
SampleGapMs == 33
CalibRuns == {[i \in 1..CalibRun |-> <<v, SampleGapMs * i>>] : v \in CalibEars}
CalibShorts ==
    {[i \in 1..CalibMixed |-> <<e[i], SampleGapMs * i>>] :
        e \in [1..CalibMixed -> CalibEars]}
SteadyRuns ==
    {[i \in 1..SteadyRun |-> <<e[i], SampleGapMs * i>>] :
        e \in [1..SteadyRun -> CalibEars]}

\* the tracker fed with landmark samples of any size, under any threshold
ProbEars == {R(1, 2000), R(1, 100), R(3, 10), R(2, 5)}
ProbThresholds == {R(1, 2), R(3, 5), One}
ProbInit ==
    /\ ProcIdle
    /\ eThr \in ProbThresholds
    /\ \E n \in WarmCounts : eye = Warm(n, eThr)
    /\ eNow = 0 /\ eLog = <<>> /\ eCount = 0 /\ eOut = NoOutput /\ script = <<>>
    /\ calib = <<>> /\ lid = <<>>
    /\ vep = <<>> /\ srv = <<>>
ProbObserve ==
    /\ eCount < MaxObs
    /\ \E ear \in ProbEars : Feed(ear, eNow + SampleGapMs)
    /\ UNCHANGED <<eThr, script, calib, lid, vep, srv,
                 procVars, js>>
ProbNext == ProbObserve
SpecProb == ProbInit /\ [][ProbNext]_vars

----------------------------------------------------------------------------
(* calculateEAR on a contour whose y coordinates are scaled toward a line. *)

\* the scaling factors are the multiples of 1 / FactorDen from 0 to 1
FactorDen == 4
Factors == {R(k, FactorDen) : k \in 0..FactorDen}

\* x coordinates in contour order: left corner, upper lid, right corner,
\* lower lid
XLayouts ==
    { \* both lids near the first and the last sample position
      <<R(30, 100), R(35, 100), R(45, 100), R(50, 100), R(45, 100), R(35, 100)>>,
      \* every point at a corner: no point near a sample position
      <<R(30, 100), R(30, 100), R(50, 100), R(50, 100), R(50, 100), R(30, 100)>>,
      \* two points near the middle sample position only
      <<R(30, 100), R(35, 100), R(40, 100), R(50, 100), R(45, 100), R(42, 100)>>,
      \* an eye narrower than 0.0001
      <<R(40000, 100000), R(40001, 100000), R(40004, 100000),
        R(40005, 100000), R(40004, 100000), R(40001, 100000)>>,
      \* all points on one vertical line
      <<R(2, 5), R(2, 5), R(2, 5), R(2, 5), R(2, 5), R(2, 5)>>,
      \* eight points
      <<R(30, 100), R(35, 100), R(40, 100), R(45, 100), R(50, 100),
        R(45, 100), R(40, 100), R(35, 100)>> }

YProfiles ==
    { <<R(50, 100), R(56, 100), R(57, 100), R(50, 100), R(44, 100), R(45, 100)>>,
      <<R(50, 100), R(52, 100), R(50, 100), R(50, 100), R(50, 100), R(50, 100)>>,
      <<R(50, 100), R(50, 100), R(50, 100), R(50, 100), R(50, 100), R(50, 100)>>,
      <<R(48, 100), R(51, 100), R(51, 100), R(49, 100), R(47, 100), R(47, 100)>>,
      <<R(50, 100), R(55, 100), R(58, 100), R(55, 100), R(50, 100),
        R(46, 100), R(43, 100), R(46, 100)>> }

Contours ==
    {[i \in 1..Len(xs) |-> <<xs[i], ys[i]>>] :
        xs \in {l \in XLayouts : Len(l) = MinContourPoints},
        ys \in {q \in YProfiles : Len(q) = MinContourPoints}}
    \cup
    {[i \in 1..Len(xs) |-> <<xs[i], ys[i]>>] :
        xs \in {l \in XLayouts : Len(l) > MinContourPoints},
        ys \in {q \in YProfiles : Len(q) > MinContourPoints}}

\* the lines y = c the contour is scaled toward
Lines == {R(1, 2), R(2, 5)}

\* the contour with every y moved to c + f * (y - c), x unchanged
Scaled(points, c, f) ==
    [i \in 1..Len(points) |->
        <<points[i][1], RAdd(c, RMul(f, RSub(points[i][2], c)))>>]

\* a measurement: the contour handed to calculateEAR and the value returned
Measure(points, f) ==
    [factor |-> f, points |-> points, ear |-> calculateEAR(points)]

ContourInit ==
    /\ ProcIdle
    /\ eye = NewEyeState /\ eNow = 0 /\ eThr = Zero /\ eLog = <<>>
    /\ eCount = 0 /\ eOut = NoOutput /\ script = <<>> /\ calib = <<>>
    /\ \E base \in Contours, c \in Lines :
         lid = [base |-> base, line |-> c, prev |-> <<>>, cur |-> <<>>]
    /\ vep = <<>> /\ srv = <<>>

\* calculateEAR is called with the contour scaled by a smaller factor than
\* at the call before
ContourObserve ==
    /\ \E f \in Factors :
         /\ lid.cur # <<>> => RLt(f, lid.cur.factor)
         /\ lid' = [lid EXCEPT !.prev = lid.cur,
                               !.cur = Measure(Scaled(lid.base, lid.line, f), f)]
    /\ UNCHANGED <<eye, eNow, eThr, eLog, eCount, eOut, script, calib, vep,
                   srv, procVars, js>>

ContourNext == ContourObserve
SpecContour == ContourInit /\ [][ContourNext]_vars

CalibInit ==
    /\ ProcIdle
    /\ eThr \in Thresholds
    /\ \/ eye = NewEyeState /\ script \in CalibRuns \cup CalibShorts
       \/ eye = Warm(CalibrationSamples, eThr) /\ script \in SteadyRuns
    /\ \E mode \in FmaModes :
         calib = [avg |-> Dbl(3, 10), mode |-> mode, sum |-> Zero]
    /\ eNow = 0 /\ eLog = <<>> /\ eCount = 0 /\ eOut = NoOutput /\ lid = <<>>
    /\ vep = <<>> /\ srv = <<>>

\* one call of processEyeLandmarks with the next sample of the script
CalibStep ==
    /\ eCount < Len(script)
    /\ Feed(script[eCount + 1][1], script[eCount + 1][2])
    /\ LET ear == script[eCount + 1][1]
       IN  calib' = [calib EXCEPT
                       !.avg = UpdateAvgEARDouble(@, eye.sampleCount + 1,
                                                  Dbl(ear[1], ear[2]),
                                                  calib.mode),
                       !.sum = RAdd(@, ear)]
    /\ UNCHANGED <<eThr, script, lid, vep, srv,
                 procVars, js>>

CalibNext == CalibStep
SpecCalib == CalibInit /\ [][CalibNext]_vars

\* the exact values x and y differ by at most k units in the last place of y
FWithin(x, y, k) ==
    IF y.m = <<>> THEN x.m = <<>>
    ELSE IF x.m = <<>> THEN FALSE
    ELSE LET e == IF x.e < y.e THEN x.e ELSE y.e
             xm == BShl(x.m, x.e - e)
             ym == BShl(y.m, y.e - e)
             tol == BShl(<<k>>, y.e - e)
         IN  /\ ~BLess(BNorm(BAdd(ym, tol, 0)), xm)
             /\ ~BLess(BNorm(BAdd(xm, tol, 0)), ym)

\* the script feeds a new eye, and n of its samples have been processed
NewEyeAfter(n) == eye.sampleCount = eCount /\ eCount = n
SampleMean == RDivInt(calib.sum, eCount)

\* C14 (amended): calibration. For a new eye and 1 <= n <= 30, after the
\* n-th landmark sample avgEAR is the arithmetic mean of the n samples in
\* exact arithmetic (the default 0.3 has no influence), and the CGFloat the
\* code computes is within 8 units in the last place of that mean; 30
\* identical samples V give V up to that rounding error.
C14_CalibrationMean ==
    \A n \in 1..CalibrationSamples :
        NewEyeAfter(n) =>
            /\ eye.avgEAR = SampleMean
            /\ FWithin(calib.avg, Dbl(SampleMean[1], SampleMean[2]), 8)

\* 30 samples of 0.17 were averaged and the CGFloat is not 0.17
C14_Witness ==
    /\ NewEyeAfter(CalibrationSamples) /\ script \in CalibRuns
    /\ script[1][1] = R(17, 100) /\ eye.avgEAR = R(17, 100)
    /\ calib.avg # Dbl(17, 100)

\* C14 as stated: 30 identical samples V give avgEAR = V exactly.
C14_CalibrationExact ==
    (NewEyeAfter(CalibrationSamples) /\ script \in CalibRuns) =>
        calib.avg = Dbl(script[1][1][1], script[1][1][2])

\* C15: steady state. With sampleCount > 30 a sample ear <= avgEAR * 0.5
\* leaves avgEAR unchanged and a sample ear > avgEAR * 0.5 sets it to
\* 0.98 * avgEAR + 0.02 * ear; a closed-eye sample never lowers avgEAR.
C15_ClosedKeepsAverage ==
    [][(eye'.sampleCount > CalibrationSamples /\ eCount' = eCount + 1
        /\ ~eye'.isOpen)
          => ~RLt(eye'.avgEAR, eye.avgEAR)]_vars

\* C16: once an EyeState has received a landmark sample its avgEAR is > 0.
C16_AveragePositive ==
    eye.sampleCount >= 1 => RGt(eye.avgEAR, Zero)

\* a call of processEyeLandmarks that found no landmarks: it is the only one
\* that leaves sampleCount as it was
MissingStep == eCount' = eCount + 1 /\ eye'.sampleCount = eye.sampleCount

\* C17: when the landmarks are missing and sampleCount > 10 the eye is
\* reported closed, and if it was open before, lastClosedTime becomes the
\* time of the call.
C17_MissingAfterCalibration ==
    [][(MissingStep /\ eye.sampleCount > MissingMinSamples) =>
          /\ ~eye'.isOpen /\ ~eOut'.isOpen
          /\ eye.isOpen => eye'.lastClosedTime = eNow']_vars

\* the first call for an open eye with 28 samples found no landmarks
C17_Witness ==
    /\ eCount = 1 /\ eye.sampleCount \in WarmCounts
    /\ eye.sampleCount > MissingMinSamples
    /\ ~eye.isOpen /\ eye.wasOpen /\ ~eOut.isOpen
    /\ eNow > 0 /\ eye.lastClosedTime = eNow

\* C18: when the landmarks are missing and sampleCount <= 10 the eye is
\* reported open with openProbability 1, whatever was observed before.
C18_MissingDuringStartup ==
    [][(MissingStep /\ eye.sampleCount <= MissingMinSamples) =>
          eOut'.isOpen /\ eOut'.openProbability = One]_vars

\* C19: every blinkDetected event carries the eye side, the tracking id and
\* a blinkCount, which is the cumulative count of that eye right after the
\* increment (1 for its first blink, 2 for the second, ...).
C19_BlinkEventCount ==
    \A i \in DOMAIN events :
        events[i].type = "blinkDetected" =>
            /\ {"eye", "trackingId", "blinkCount"} \subseteq DOMAIN events[i]
            /\ events[i].blinkCount >= 1
            /\ LET reg == IF events[i].eye = "left" THEN leftEyeStates
                                                     ELSE rightEyeStates
               IN  events[i].trackingId \in DOMAIN reg =>
                     events[i].blinkCount = reg[events[i].trackingId].blinkCount

\* the faceDetected events of the analysis that began last
Emitted == Cardinality({i \in DOMAIN events : events[i].type = "faceDetected"})

\* C20: an admitted frame whose conversion and detection succeed produces
\* exactly one faceDetected event, also with zero faces: the analysis ends,
\* and when it ends it has sent one. A frame that is skipped, dropped as
\* busy or that fails sends nothing.
C20_OneResultPerFrame ==
    /\ [](Emitted <= 1)
    /\ [][(wrk.pc # "idle" /\ wrk'.pc = "idle") => Emitted' = 1]_vars
    /\ [][(FailureStep \/ cap' # cap) => events' = events]_vars
    /\ (wrk.pc # "idle") ~> (wrk.pc = "idle" /\ Emitted = 1)

\* an analysis that found no face has ended with its one result
C20_Witness ==
    /\ wrk = Idle /\ ~ghost.failed
    /\ events = <<[type |-> "faceDetected", faces |-> <<>>]>>

\* the key of the face the worker is at
FaceKey == IF platform = "ios" THEN wrk.key ELSE wrk.faces[wrk.i].trackingId
\* every entry of the registry but the one of key k is as it was
OthersKept(before, after, k) ==
    \A j \in DOMAIN before \ {k} : j \in DOMAIN after /\ after[j] = before[j]

\* C21: processing the observation of one (trackingId, side) changes the
\* EyeState of that key only: the other eye of the face and both eyes of
\* every other face keep all their fields.
C21_PerKeyIsolation ==
    [][/\ (wrk.pc \in {"eyeL", "a_left"} /\ wrk'.pc # wrk.pc) =>
            /\ rightEyeStates' = rightEyeStates
            /\ OthersKept(leftEyeStates, leftEyeStates', FaceKey)
       /\ (wrk.pc \in {"eyeR", "a_right"} /\ wrk'.pc # wrk.pc) =>
            /\ leftEyeStates' = leftEyeStates
            /\ OthersKept(rightEyeStates, rightEyeStates', FaceKey)]_vars

\* the left eye of the second face was sampled; its right eye and the first
\* face's left eye hold other calibrations
C21_Witness ==
    /\ platform = "ios" /\ DOMAIN leftEyeStates = {0, 1}
    /\ leftEyeStates[1].sampleCount = 1 /\ rightEyeStates[1].sampleCount = 0
    /\ leftEyeStates[0].sampleCount = 2
    /\ leftEyeStates[0].avgEAR # leftEyeStates[1].avgEAR

\* C22: whatever integer frameSkipCount the application passes, 0 and
\* negative values included, the frameSkipCount the gate divides by is >= 1.
C22_SkipCountClamped == frameSkipCount >= 1

\* the hook calls enable / disable
EnableStep == js'.calls = js.calls + 1 /\ js'.call = "enable"
\* the promise of the awaited call is resolved and the hook goes on
Succeeds(call) == js.pc = "resolved" /\ js.call = call /\ js'.pc = "idle"

\* C23: enable on a track that is not a video track, or with face detection
\* disabled in the module configuration, ends in an error, calls no module
\* method and leaves the native processor as it was (disabled stays
\* disabled).
C23_EnableRejected ==
    /\ [][(EnableStep /\ (js.kind # "video" \/ ~js.enableFaceDetection)) =>
            /\ js'.pc = "rejected" \/ js'.error # Null
            /\ js'.pc # "posted"
            /\ isEnabled' = isEnabled /\ ctl' = ctl]_vars
    /\ [][(js.pc = "rejected" /\ js'.pc = "idle") =>
            /\ js'.error # Null /\ ~js'.isEnabled
            /\ isEnabled' = isEnabled]_vars

\* enable was rejected for the module configuration, the processor is off
C23_Witness ==
    /\ js.call = "enable" /\ js.pc = "idle" /\ js.error = "rejected"
    /\ js.kind = "video" /\ ~js.enableFaceDetection /\ js.calls = 1
    /\ ~isEnabled /\ ~js.isEnabled

\* C24: enable while the pipeline is enabled, and disable while it is not,
\* end in an error: a call that succeeds is no such call.
C24_MisuseReported ==
    [][/\ Succeeds("enable") => ~js.isEnabled
       /\ Succeeds("disable") => js.isEnabled]_vars

\* C25: disable succeeds whenever it is called, also twice in a row; when
\* it completes the processor is disabled with empty registries and frame
\* counter 0, and completing it in that state changes none of these.
C25_DisableIdempotent ==
    /\ [](js.call = "disable" => js.pc # "rejected")
    /\ [][(js.call = "disable" /\ js.pc = "posted" /\ js'.pc = "resolved") =>
            /\ ~isEnabled' /\ frameCounter' = 0
            /\ leftEyeStates' = <<>> /\ rightEyeStates' = <<>>]_vars

\* the second of two disable calls in a row has succeeded
C25_Witness ==
    /\ js.prev = "disable" /\ js.call = "disable" /\ js.pc = "idle"
    /\ js.error = Null /\ ~js.isEnabled
    /\ ~isEnabled /\ frameCounter = 0
    /\ leftEyeStates = <<>> /\ rightEyeStates = <<>>

\* C26: Android. While isProcessing stays true no further frame is
\* admitted, and the first frame after a reset() whose counter is a multiple
\* of frameSkipCount is admitted again: it finds the guard free.
C26_ResetUnblocks ==
    /\ [][(platform = "android" /\ isProcessing) =>
            Len(queue') <= Len(queue)]_vars
    /\ [][(/\ platform = "android"
           /\ cap.pc = "a_mod" /\ cap'.pc = "idle"
           /\ ghost.afterReset /\ ghost.clean /\ ghost.adm = 0
           /\ ~AND_SkipFrame(frameCounter, frameSkipCount))
             => ~isProcessing]_vars

\* the quotient of C27 for the sample, the average and the threshold of the
\* last call, and its denominator
ClosedEAR == RMul(eye.avgEAR, eThr)
LinearDen == RSub(RMul(eye.avgEAR, R(12, 10)), ClosedEAR)
Linear == RMin(One, RMax(Zero, RDiv(RSub(eye.currentEAR, ClosedEAR), LinearDen)))

\* C27 (amended): for an observation with landmarks the reported
\* openProbability is (ear - closedEAR) / (avgEAR * 1.2 - closedEAR) clamped
\* to [0, 1] when avgEAR > 0.001 and avgEAR - closedEAR > 0.001; it is 0 when
\* avgEAR <= 0.001, and otherwise 1 for an open eye and 0 for a closed one.
C27_OpenProbability ==
    eCount >= 1 =>
        eOut.openProbability =
            IF ~RGt(eye.avgEAR, R(1, 1000)) THEN Zero
            ELSE IF ~RGt(RSub(eye.avgEAR, ClosedEAR), R(1, 1000))
                 THEN IF eye.isOpen THEN One ELSE Zero
                 ELSE Linear

\* a sample between closed and wide open is reported with a probability
\* strictly between 0 and 1
C27_Witness ==
    /\ eCount >= 1
    /\ RGt(eye.avgEAR, R(1, 1000))
    /\ RGt(RSub(eye.avgEAR, ClosedEAR), R(1, 1000))
    /\ RGt(eOut.openProbability, Zero) /\ RLt(eOut.openProbability, One)

\* C27 as stated: the quotient, clamped, for every ear, avgEAR and
\* blinkThreshold for which it is defined.
C27_AlwaysLinear ==
    (eCount >= 1 /\ LinearDen # Zero) => eOut.openProbability = Linear

\* C28: EAR monotonicity. When calculateEAR is called on a contour of at
\* least 6 points and then on the same contour with its y coordinates scaled
\* toward a common line by a smaller factor (x unchanged), the second value
\* is never larger than the first. If the horizontal extent of the contour
\* is at least 0.0001, each value is the factor times the EAR of the
\* unscaled contour, so the value strictly decreases while the vertical
\* extent is non-zero; if it is below 0.0001 the value is 0.3 at every step.
Stepped == lid # <<>> /\ lid.prev # <<>>
Wide == ~RLt(HorizontalDistance(lid.base), MinHorizontalDistance)
C28_EARMonotone ==
    Stepped =>
        /\ Len(lid.base) >= MinContourPoints
        /\ ~RGt(lid.cur.ear, lid.prev.ear)
        /\ IF Wide
           THEN /\ lid.cur.ear = RMul(lid.cur.factor, calculateEAR(lid.base))
                /\ VerticalExtent(lid.prev.points) # Zero
                       => RLt(lid.cur.ear, lid.prev.ear)
           ELSE lid.cur.ear = DefaultEAR /\ lid.prev.ear = DefaultEAR
C28_Witness ==
    /\ Stepped /\ Wide
    /\ SampledAt(lid.prev.points) # {}
    /\ VerticalExtent(lid.cur.points) # Zero
    /\ RLt(lid.cur.ear, lid.prev.ear)
\* C28 as stated: strict decrease for every contour of at least 6 points
\* while the vertical extent is non-zero
C28_StrictForEveryContour ==
    Stepped =>
        /\ ~RGt(lid.cur.ear, lid.prev.ear)
        /\ VerticalExtent(lid.prev.points) # Zero
               => RLt(lid.cur.ear, lid.prev.ear)

\* the last n elements of h, all of h if it has fewer
LastOf(h, n) ==
    LET k == IF Len(h) < n THEN Len(h) ELSE n
    IN  [i \in 1..k |-> h[Len(h) - k + i]]

\* C29: recentBlinks never holds more than 10 events and is always the most
\* recent (up to 10) of the blinkDetected events the hook received since the
\* last resetCount, in arrival order.
C29_RecentBlinks ==
    /\ Len(js.recentBlinks) <= RecentLimit
    /\ js.recentBlinks = LastOf(js.heard, RecentLimit)
\* more than 10 events were received: the oldest ones have been dropped
C29_Witness ==
    /\ Len(js.heard) > RecentLimit
    /\ Len(js.recentBlinks) = RecentLimit
    /\ js.recentBlinks[1] # js.heard[1]

\* a step of enable or disable: a call is made, settled or completed
CallStep == js'.pc # js.pc \/ js'.calls # js.calls
\* a blinkDetected event arrives
EventStep == js'.sent = js.sent + 1
\* resetCount after some event was received
ResetStep == js.heard # <<>> /\ js'.heard = <<>>

\* C30: blinkCount is the number of blinkDetected events received since the
\* last resetCount, which are the events that arrived while the hook was
\* enabled: each of them adds exactly 1, an event arriving while the hook is
\* not enabled adds nothing, no step of enable or disable changes blinkCount,
\* and resetCount sets blinkCount to 0, lastBlinkTime to null and
\* recentBlinks to empty without changing isEnabled.
C30_BlinkCount ==
    /\ [](js.blinkCount = Len(js.heard) /\ js.subscribed = js.isEnabled)
    /\ [][/\ EventStep => js'.blinkCount =
                             js.blinkCount + (IF js.isEnabled THEN 1 ELSE 0)
          /\ CallStep => js'.blinkCount = js.blinkCount
          /\ ResetStep => /\ js'.blinkCount = 0
                          /\ js'.lastBlinkTime = NoTime
                          /\ js'.recentBlinks = <<>>
                          /\ js'.isEnabled = js.isEnabled]_vars
\* blinks were counted, others arrived while the hook was not enabled, and
\* the hook has been disabled since
C30_Witness ==
    /\ js.blinkCount >= 2 /\ js.blinkCount < js.sent
    /\ ~js.isEnabled /\ js.call = "disable" /\ js.pc = "idle"

\* the capture thread passes the statement that counts the frame
CountStep ==
    \/ platform = "ios" /\ cap.pc = "gate" /\ cap'.pc # "gate"
    \/ platform = "android" /\ cap.pc = "a_store" /\ cap'.pc # "a_store"
\* the capture thread decides that the counted frame is dropped as busy
BusyStep ==
    \/ /\ platform = "ios" /\ cap.pc = "gate" /\ cap'.pc # "gate"
       /\ frameSkipCount # 0 /\ ~IOS_SkipFrame(frameCounter + 1, frameSkipCount)
       /\ isProcessing
    \/ /\ platform = "android" /\ cap.pc = "a_mod" /\ cap'.pc # "a_mod"
       /\ ~AND_SkipFrame(frameCounter, frameSkipCount) /\ isProcessing

\* C31: while the processor is enabled every delivered frame adds exactly
\* one to the frame counter, whether it is skipped, dropped as busy or
\* admitted; a frame dropped as busy is not queued; while the processor is
\* disabled no step of a delivery changes the frame counter.
C31_EveryFrameCounted ==
    [][/\ (CountStep /\ isEnabled) => frameCounter' = frameCounter + 1
       /\ BusyStep => queue' = queue
       /\ (cap' # cap /\ ~isEnabled) => frameCounter' = frameCounter]_vars

\* C32: lastClosedTime is written only by an observation that takes the eye
\* from open to closed, which sets it to the time of that observation and
\* emits no BlinkEvent; observations during which the eye stays closed leave
\* it unchanged; so when the eye reopens, the closed duration that decides
\* the blink is the time since the first closed observation of the episode.
C32_ClosedSinceFirst ==
    [][/\ eye'.lastClosedTime # eye.lastClosedTime
            => eye.isOpen /\ ~eye'.isOpen
       /\ (eye.isOpen /\ ~eye'.isOpen)
            => eye'.lastClosedTime = eNow' /\ eLog' = eLog
       /\ (~eye.isOpen /\ ~eye'.isOpen)
            => eye'.lastClosedTime = eye.lastClosedTime
       /\ (~eye.isOpen /\ eye'.isOpen)
            => /\ eye'.lastClosedTime = eye.lastClosedTime
               /\ (eLog' # eLog) = ValidBlink(eNow' - eye.lastClosedTime)]_vars
\* the eye reopened after more than one closed observation and the blink
\* was reported
C32_Witness ==
    /\ eye.isOpen /\ ~eye.wasOpen
    /\ eLog # <<>> /\ eLog[Len(eLog)].timestamp = eNow
    /\ (eNow - eye.lastClosedTime) \notin Gaps

\* C33: Android. A closed-to-open transition is counted as a blink only
\* when the eye was closed for more than 50 ms and less than 400 ms. The
\* processor starts at time 0 with no eye state, so an eye whose blink is
\* reported at time t was closed for at most t: every blinkDetected event
\* has a timestamp above 50 ms, and no eye has a blink counted before then.
C33_AndroidBlinkGated ==
    /\ \A i \in DOMAIN events :
          events[i].type = "blinkDetected" => events[i].timestamp > BlinkMinMs
    /\ platform = "android" =>
          \A reg \in {leftEyeStates, rightEyeStates} : \A tid \in DOMAIN reg :
              reg[tid].blinkCount >= 1 => now > BlinkMinMs

\* C34: an observation without landmarks leaves sampleCount, avgEAR,
\* currentEAR, blinkCount and lastOpenTime of the eye as they were and emits
\* no BlinkEvent, whatever state the eye is in; of the fields it may change
\* (wasOpen, isOpen, lastClosedTime), wasOpen becomes the former isOpen.
C34_MissingChangesNoSample ==
    [][Feed(NoLandmarks, eNow') =>
          /\ eye'.sampleCount = eye.sampleCount
          /\ eye'.avgEAR = eye.avgEAR
          /\ eye'.currentEAR = eye.currentEAR
          /\ eye'.blinkCount = eye.blinkCount
          /\ eye'.lastOpenTime = eye.lastOpenTime
          /\ eye'.wasOpen = eye.isOpen
          /\ eLog' = eLog]_vars
\* landmarks went missing on an open eye with samples: it is closed now, and
\* its last sample is still the one taken before
C34_Witness ==
    /\ eCount >= 2 /\ ~eye.isOpen /\ eye.wasOpen /\ eye.lastClosedTime = eNow
    /\ eye.currentEAR = R(3, 10) /\ eye.sampleCount > MissingMinSamples
    /\ eOut.openProbability = Zero

\* the blinkCount the faceDetected event r reports for the eye of event b
ReportedFor(r, b) ==
    {(IF b.eye = "left" THEN f.landmarks[1] ELSE f.landmarks[2]).blinkCount :
        f \in {r.faces[k] : k \in {j \in DOMAIN r.faces :
                  /\ r.faces[j].trackingId = b.trackingId
                  /\ r.faces[j].landmarks # <<>>}}}

\* C35: iOS, the events of one analysed frame. The faceDetected event is the
\* last one: every blinkDetected event of the frame precedes it. The blink
\* of a face's left eye precedes the blink of its right eye. The blinkCount
\* the faceDetected event reports for an eye that blinked in the frame is
\* the blinkCount of that eye's blinkDetected event.
C35_BlinksBeforeResult ==
    platform = "ios" =>
        /\ \A i \in DOMAIN events :
              events[i].type = "faceDetected" => i = Len(events)
        /\ \A i \in DOMAIN events : \A j \in DOMAIN events :
              (/\ i < j
               /\ events[i].type = "blinkDetected"
               /\ events[j].type = "blinkDetected"
               /\ events[i].trackingId = events[j].trackingId)
                 => events[i].eye = "left" /\ events[j].eye = "right"
        /\ \A i \in DOMAIN events :
              (events[i].type = "blinkDetected"
               /\ events[Len(events)].type = "faceDetected")
                 => ReportedFor(events[Len(events)], events[i])
                        = {events[i].blinkCount}
\* both eyes of a face blinked in one frame and the result has been sent
C35_Witness ==
    /\ platform = "ios" /\ Len(events) >= 3
    /\ events[1].type = "blinkDetected" /\ events[1].eye = "left"
    /\ events[2].type = "blinkDetected" /\ events[2].eye = "right"
    /\ events[Len(events)].type = "faceDetected"

\* C36: the first landmark sample of a new EyeState, with blinkThreshold
\* below 1, makes avgEAR equal to the sample, so the sample is above the
\* adaptive threshold avgEAR * blinkThreshold and the eye is classified
\* open, however small the EAR: the sample starts no closed episode. The
\* comparison comes out the same in the CGFloat arithmetic of the build.
C36_FirstSampleOpen ==
    [][(eye.sampleCount = 0 /\ eye'.sampleCount = 1 /\ RLt(eThr, One)) =>
          /\ eye'.avgEAR = eye'.currentEAR
          /\ eye'.isOpen /\ eOut'.isOpen
          /\ eye'.lastClosedTime = eye.lastClosedTime
          /\ eLog' = eLog
          /\ LET ear == Dbl(eye'.currentEAR[1], eye'.currentEAR[2])
             IN  FGt(ear, FMul(ear, Dbl(eThr[1], eThr[2])))]_vars
\* a first sample of EAR 0.0005 was classified open
C36_Witness ==
    /\ eCount = 1 /\ eye.sampleCount = 1 /\ RLt(eThr, One)
    /\ eye.currentEAR = R(1, 2000) /\ eye.isOpen

\* no call of either hook is in flight
HooksIdle == js.pc = "idle" /\ js.face.pc = "idle"

\* C37: useBlinkDetection and useFaceDetection on one track. Whenever no
\* call is in flight, a hook that reports isEnabled = true implies that the
\* native processor is enabled.
C37_HooksAgreeWithProcessor ==
    (HooksIdle /\ (js.isEnabled \/ js.face.isEnabled)) => isEnabled

----------------------------------------------------------------------------
(* The Android frame pipeline: VideoEffectProcessor.onFrameCaptured hands   *)
(* the captured frame to its VideoFrameProcessors in turn and the result to *)
(* the sink. Frames are numbered; vep.refs[k] is the reference count of     *)
(* frame k, frame 1 is the captured frame, the others are frames a          *)
(* processor created. vep.held, vep.sunk, vep.sinkSet and vep.fresh are     *)
(* history fields used only by the properties.                              *)

MaxProcessors == 3

\* what VideoFrameProcessor.process can hand back: the frame it was given,
\* a frame it created (held once, by the caller), or null
Returns == {"same", "new", "null"}

\* the frame as webrtc hands it over: the caller holds it once
CapturedFrame == 1

\* VideoFrame.retain / VideoFrame.release
Retain(refs, k) == [refs EXCEPT ![k] = @ + 1]
Release(refs, k) == [refs EXCEPT ![k] = @ - 1]

\* the constructor; mSink is null until setSink
FramesInit ==
    /\ ProcIdle
    /\ eye = NewEyeState /\ eNow = 0 /\ eThr = Zero /\ eLog = <<>>
    /\ eCount = 0 /\ eOut = NoOutput /\ script = <<>> /\ calib = <<>>
    /\ lid = <<>> /\ srv = <<>>
    /\ \E n \in 0..MaxProcessors :
         vep = [processors |-> n, mSink |-> FALSE, pc |-> "idle", i |-> 0,
                outputFrame |-> 0, refs |-> <<>>, held |-> 0, sunk |-> <<>>,
                sinkSet |-> FALSE, fresh |-> {}]

\* setSink, from the thread that adds or removes the sink
VEP_SetSink ==
    /\ \E sink \in BOOLEAN : vep' = [vep EXCEPT !.mSink = sink]
    /\ UNCHANGED <<eye, eNow, eThr, eLog, eCount, eOut, script, calib, lid,
                   srv, procVars, js>>

\* onFrameCaptured is entered with the next frame: frame.retain(),
\* outputFrame = frame
VEP_FrameCaptured ==
    /\ vep.pc \in {"idle", "returned", "thrown"}
    /\ vep' = [vep EXCEPT !.pc = IF vep.processors = 0 THEN "deliver"
                                 ELSE "loop",
                          !.i = 1,
                          !.outputFrame = CapturedFrame,
                          !.refs = Retain(<<1>>, CapturedFrame),
                          !.held = 1, !.sunk = <<>>, !.sinkSet = FALSE,
                          !.fresh = {}]
    /\ UNCHANGED <<eye, eNow, eThr, eLog, eCount, eOut, script, calib, lid,
                   srv, procVars, js>>

\* processor.process returned null: mSink.onFrame(frame) without a null
\* test, frame.release(), return
ReturnedNull(v) ==
    IF v.mSink
    THEN [v EXCEPT !.sunk = Append(@, CapturedFrame), !.sinkSet = TRUE,
                   !.refs = Release(@, CapturedFrame), !.pc = "returned"]
    ELSE [v EXCEPT !.pc = "thrown"]

\* the frame before the processor is released when the processor returned
\* another one and the frame before is not the captured frame
ReleasePrevious(refs, previousFrame, outputFrame) ==
    IF outputFrame # previousFrame /\ previousFrame # CapturedFrame
    THEN Release(refs, previousFrame)
    ELSE refs

\* one pass of the loop over videoFrameProcessors
VEP_Process ==
    /\ vep.pc = "loop"
    /\ \E ret \in Returns :
         LET previousFrame == vep.outputFrame
             created == Len(vep.refs) + 1
             outputFrame == IF ret = "new" THEN created ELSE previousFrame
             refs == IF ret = "new" THEN Append(vep.refs, 1) ELSE vep.refs
         IN  vep' = IF ret = "null"
                    THEN ReturnedNull(vep)
                    ELSE [vep EXCEPT
                            !.outputFrame = outputFrame,
                            !.refs = ReleasePrevious(refs, previousFrame,
                                                     outputFrame),
                            !.fresh = IF ret = "new" THEN @ \cup {created}
                                      ELSE @,
                            !.i = @ + 1,
                            !.pc = IF vep.i = vep.processors THEN "deliver"
                                   ELSE "loop"]
    /\ UNCHANGED <<eye, eNow, eThr, eLog, eCount, eOut, script, calib, lid,
                   srv, procVars, js>>

\* after the loop: the sink, when there is one, gets outputFrame;
\* outputFrame is released when it is not the captured frame;
\* frame.release()
VEP_Deliver ==
    /\ vep.pc = "deliver"
    /\ LET out == vep.outputFrame
           released == IF out # CapturedFrame THEN Release(vep.refs, out)
                       ELSE vep.refs
       IN  vep' = [vep EXCEPT
                     !.sunk = IF vep.mSink THEN Append(@, out) ELSE @,
                     !.sinkSet = vep.mSink,
                     !.refs = Release(released, CapturedFrame),
                     !.pc = "returned"]
    /\ UNCHANGED <<eye, eNow, eThr, eLog, eCount, eOut, script, calib, lid,
                   srv, procVars, js>>

FramesNext ==
    \/ VEP_SetSink \/ VEP_FrameCaptured \/ VEP_Process \/ VEP_Deliver
SpecFrames == FramesInit /\ [][FramesNext]_vars

\* onFrameCaptured has ended, by return or by exception
VEP_Ended == vep # <<>> /\ vep.pc \in {"returned", "thrown"}

\* C38: when onFrameCaptured has ended, on whatever path, the captured
\* frame has the reference count it came with, the sink (when one was set)
\* has received exactly one frame, and every frame a processor returned in
\* place of its input has been released exactly once: its count is 0.
C38_FramesBalanced ==
    VEP_Ended =>
        /\ vep.refs[CapturedFrame] = vep.held
        /\ vep.sinkSet => Len(vep.sunk) = 1
        /\ \A k \in vep.fresh : vep.refs[k] = 0

----------------------------------------------------------------------------
(* The example signaling server. A client is a socket.io socket, named by   *)
(* its socket id; an id is issued once. srv.waitingPool is the Set in       *)
(* insertion order, srv.pairedUsers the object as a set of                  *)
(* <<socket id, partner id>> properties. The 'paired' and                   *)
(* 'peer-disconnected' messages and the forwarded offer / answer /          *)
(* ice-candidate messages change nothing on the server and are left out.    *)

MaxClients == 3
Clients == 1..MaxClients

\* Object.keys(pairedUsers), pairedUsers[id]
Keys(pairs) == {p[1] : p \in pairs}
Partner(pairs, id) == (CHOOSE p \in pairs : p[1] = id)[2]

\* pairedUsers[id] = partner, delete pairedUsers[id]
Assign(pairs, id, partner) ==
    {p \in pairs : p[1] # id} \cup {<<id, partner>>}
Delete(pairs, id) == {p \in pairs : p[1] # id}

\* waitingPool.delete(id), waitingPool.add(id)
PoolDelete(pool, id) == SelectSeq(pool, LAMBDA w : w # id)
PoolAdd(pool, id) ==
    IF \E k \in 1..Len(pool) : pool[k] = id THEN pool ELSE Append(pool, id)

pairUsers(s, socket1Id, socket2Id) ==
    [s EXCEPT !.pairedUsers =
        Assign(Assign(@, socket1Id, socket2Id), socket2Id, socket1Id)]

\* the id unpairUser returns: the partner, or NoClient for null (no
\* socket id is 0)
NoClient == 0
UnpairedFrom(s, socketId) ==
    IF socketId \in Keys(s.pairedUsers)
    THEN Partner(s.pairedUsers, socketId)
    ELSE NoClient

unpairUser(s, socketId) ==
    IF socketId \in Keys(s.pairedUsers)
    THEN [s EXCEPT !.pairedUsers =
            Delete(Delete(@, socketId), Partner(s.pairedUsers, socketId))]
    ELSE s

findMatch(s, socketId) ==
    LET pool == PoolDelete(s.waitingPool, socketId)
    IN  IF Len(pool) > 0
        THEN pairUsers([s EXCEPT !.waitingPool = Tail(pool)],
                       socketId, Head(pool))
        ELSE [s EXCEPT !.waitingPool = PoolAdd(pool, socketId)]

ServerInit ==
    /\ ProcIdle
    /\ eye = NewEyeState /\ eNow = 0 /\ eThr = Zero /\ eLog = <<>>
    /\ eCount = 0 /\ eOut = NoOutput /\ script = <<>> /\ calib = <<>>
    /\ lid = <<>> /\ vep = <<>>
    /\ srv = [connected |-> {}, issued |-> {}, waitingPool |-> <<>>,
              pairedUsers |-> {}]

\* io.on('connection'): a socket with a new id
Srv_Connect ==
    /\ \E id \in Clients \ srv.issued :
         srv' = [srv EXCEPT !.connected = @ \cup {id},
                            !.issued = @ \cup {id}]
    /\ UNCHANGED <<eye, eNow, eThr, eLog, eCount, eOut, script, calib, lid,
                   vep, procVars, js>>

\* socket.on('find-peer')
Srv_FindPeer ==
    /\ \E id \in srv.connected : srv' = findMatch(srv, id)
    /\ UNCHANGED <<eye, eNow, eThr, eLog, eCount, eOut, script, calib, lid,
                   vep, procVars, js>>

\* socket.on('next-peer')
Srv_NextPeer ==
    /\ \E id \in srv.connected :
         LET oldPartnerId == UnpairedFrom(srv, id)
             found == findMatch(unpairUser(srv, id), id)
         IN  srv' = IF oldPartnerId # NoClient
                    THEN findMatch(found, oldPartnerId)
                    ELSE found
    /\ UNCHANGED <<eye, eNow, eThr, eLog, eCount, eOut, script, calib, lid,
                   vep, procVars, js>>

\* socket.on('disconnect')
Srv_Disconnect ==
    /\ \E id \in srv.connected :
         LET left == [srv EXCEPT !.connected = @ \ {id},
                                 !.waitingPool = PoolDelete(@, id)]
             partnerId == UnpairedFrom(left, id)
             unpaired == unpairUser(left, id)
         IN  srv' = IF partnerId # NoClient
                    THEN findMatch(unpaired, partnerId)
                    ELSE unpaired
    /\ UNCHANGED <<eye, eNow, eThr, eLog, eCount, eOut, script, calib, lid,
                   vep, procVars, js>>

ServerNext ==
    \/ Srv_Connect \/ Srv_FindPeer \/ Srv_NextPeer \/ Srv_Disconnect
SpecServer == ServerInit /\ [][ServerNext]_vars

\* the clients in the waiting pool
Waiting == {srv.waitingPool[k] : k \in 1..Len(srv.waitingPool)}

\* C39: in every state of the signaling server the pairing table is
\* symmetric (a paired with b implies b paired with a), no client is paired
\* with itself, and no paired client is in the waiting pool.
C39_PairingConsistent ==
    srv # <<>> =>
        \A p \in srv.pairedUsers :
            /\ <<p[2], p[1]>> \in srv.pairedUsers
            /\ p[1] # p[2]
            /\ p[1] \notin Waiting

\* C3: blink validity window. A closed-to-open transition of the eye
\* increments blinkCount and emits a BlinkEvent if and only if
\* 50 ms < now - lastClosedTime < 400 ms; at exactly 50 ms, exactly 400 ms
\* and outside the window the eye opens, nothing is counted, nothing emitted.
C3_BlinkWindow ==
    [][(~eye.isOpen /\ eye'.isOpen) =>
          LET d == eNow' - eye.lastClosedTime
              inWindow == d > 50 /\ d < 400
          IN  /\ inWindow =>
                  /\ eye'.blinkCount = eye.blinkCount + 1
                  /\ Len(eLog') = Len(eLog) + 1
                  /\ eLog'[Len(eLog')].blinkCount = eye'.blinkCount
                  /\ eLog'[Len(eLog')].timestamp = eNow'
              /\ ~inWindow =>
                  /\ eye'.blinkCount = eye.blinkCount
                  /\ eLog' = eLog
              /\ eOut'.isOpen]_vars
\* the eye reopened exactly 50 ms after it closed and nothing was counted
C3_Witness ==
    /\ eCount > 0 /\ eye.isOpen /\ ~eye.wasOpen
    /\ eNow - eye.lastClosedTime = 50
    /\ eye.blinkCount = 0 /\ eLog = <<>>

\* C5: end-to-end scenario. For an eye calibrated to avgEAR 0.30 with
\* blinkThreshold 0.5, EAR 0.30, 0.30, 0.10, 0.10, 0.30 at 0, 33, 66, 166,
\* 233 ms gives exactly one BlinkEvent, emitted with the sample at 233 ms,
\* with blinkCount 1, and no BlinkEvent for any other sample.
TheScenario ==
    [i \in 1..5 |-> <<<<R(3, 10), R(3, 10), R(1, 10), R(1, 10), R(3, 10)>>[i],
                      ScenarioTimes[i]>>]
C5_EndToEnd ==
    (script = TheScenario /\ eThr = R(1, 2)) =>
        /\ eCount < 5 => eLog = <<>>
        /\ eCount = 5 =>
             eLog = <<[type |-> "blinkDetected", timestamp |-> 233,
                       eye |-> "left", trackingId |-> 0, blinkCount |-> 1]>>
C5_Witness ==
    /\ script = TheScenario /\ eThr = R(1, 2) /\ eCount = 5
    /\ eNow = 233 /\ Len(eLog) = 1

====
